---------------------------- MODULE Spec2Model ----------------------------
(***************************************************************************)
(* Telegram -> Notion bridge: the webhook handler (api/telegram), the      *)
(* polling tool telegramIngestToNotion and the attachment upload pipeline  *)
(* they share.  Every await on an outbound call (Notion, Telegram) is one  *)
(* step; the result of the call is chosen by the environment.              *)
(***************************************************************************)
EXTENDS Integers, Sequences, FiniteSets, TLC

VARIABLES
    env,        \* process.env of the deployment
    db,         \* the Notion database: which number properties its schema exposes
    pages,      \* the rows of the Notion database, in creation order
    sessions,   \* the Notion file-upload sessions, in creation order
    req         \* one record per webhook delivery or polling run

vars == <<env, db, pages, sessions, req>>

(***************************************************************************)
(* Bounds of the model.                                                    *)
(***************************************************************************)
\* the webhook deliveries of SpecMulti
MaxDeliveries == 2
\* the requests and polling runs of Spec and SpecGate
MaxRuns == 1
\* the runs of the polling tool of SpecPoll
MaxPollRuns == 2

(***************************************************************************)
(* Program constants.                                                      *)
(***************************************************************************)
NOTION_SINGLE_PART_UPLOAD_BYTES == 20 * 1024 * 1024
DEFAULT_TELEGRAM_NOTION_MAX_FILE_BYTES == 100 * 1024 * 1024

(***************************************************************************)
(* Values.  A string that the code compares byte by byte is a sequence of  *)
(* bytes; an optional value is a record with a flag, or a fixed            *)
(* "undefined" value of its type.                                          *)
(***************************************************************************)
UNDEF == "<undefined>"          \* an absent string
NoNumber == 0 - 1                \* an absent file_size / id
NoReason == [text |-> "", num |-> 0]

Max2(a, b) == IF a >= b THEN a ELSE b
Min2(a, b) == IF a <= b THEN a ELSE b

RECURSIVE BitXor(_, _)
BitXor(a, b) ==
    IF a = 0 THEN b
    ELSE IF b = 0 THEN a
    ELSE (((a % 2) + (b % 2)) % 2) + 2 * BitXor(a \div 2, b \div 2)

RECURSIVE BitOr(_, _)
BitOr(a, b) ==
    IF a = 0 THEN b
    ELSE IF b = 0 THEN a
    ELSE Max2(a % 2, b % 2) + 2 * BitOr(a \div 2, b \div 2)

(***************************************************************************)
(* Webhook secret check.                                                   *)
(***************************************************************************)
\* (aBytes[i] ?? 0): a byte past the end reads as 0
ByteAt(s, i) == IF i <= Len(s) THEN s[i] ELSE 0

RECURSIVE DiffBytes(_, _, _, _)
DiffBytes(a, b, i, diff) ==
    IF i > Max2(Len(a), Len(b)) THEN diff
    ELSE DiffBytes(a, b, i + 1, BitOr(diff, BitXor(ByteAt(a, i), ByteAt(b, i))))

\* seeded fault: the lengths are not compared
timingSafeStringEquals_NoLength(a, b) == DiffBytes(a, b, 1, 0) = 0

timingSafeStringEquals(a, b) == DiffBytes(a, b, 1, BitXor(Len(a), Len(b))) = 0

\* /^(1|true|yes|on)$/i.test(value.trim()) over the flag values of the model
TrimLower(v) ==
    CASE v = " True " -> "true"
      [] v = "ON" -> "on"
      [] OTHER -> v

isTrueEnvFlag(flag) ==
    IF ~flag.set \/ flag.val = "" THEN FALSE
    ELSE TrimLower(flag.val) \in {"1", "true", "yes", "on"}

\* the header of a request: absent, one string, or an array of values
getHeaderValue(h) ==
    CASE h.kind = "string" -> [isNull |-> FALSE, val |-> h.val]
      [] h.kind = "array" -> [isNull |-> FALSE, val |-> h.val]   \* raw[0], a string
      [] OTHER -> [isNull |-> TRUE, val |-> <<>>]   \* absent, or raw[0] no string

\* !process.env.TELEGRAM_WEBHOOK_SECRET_TOKEN: unset or empty
SecretConfigured == env.secret.set /\ env.secret.val # <<>>

\* seeded fault: a missing header is let through
isAuthorized_MissingOk(secretHeader, requireSecret) ==
    IF ~requireSecret THEN TRUE
    ELSE IF ~SecretConfigured THEN TRUE
    ELSE IF secretHeader.isNull \/ secretHeader.val = <<>> THEN TRUE
    ELSE timingSafeStringEquals(secretHeader.val, env.secret.val)

isAuthorizedTelegramWebhookRequest(secretHeader, requireSecret) ==
    IF ~requireSecret THEN TRUE
    ELSE IF ~SecretConfigured THEN TRUE
    ELSE IF secretHeader.isNull \/ secretHeader.val = <<>> THEN FALSE
    ELSE timingSafeStringEquals(secretHeader.val, env.secret.val)

(***************************************************************************)
(* Configured maximum upload size.  The environment value is unset / not a *)
(* number (nan), or a number n + 1/2 (half) or n.                          *)
(***************************************************************************)
\* seeded fault: a value that is not positive is taken as it is
getMaxUploadBytes_NoDefault == IF env.maxBytes.nan THEN 0 ELSE Max2(env.maxBytes.n, 0)

getMaxUploadBytes ==
    LET c == env.maxBytes
        positive == ~c.nan /\ (c.n > 0 \/ (c.n = 0 /\ c.half))
    IN  IF positive THEN c.n    \* Math.floor
        ELSE DEFAULT_TELEGRAM_NOTION_MAX_FILE_BYTES

(***************************************************************************)
(* Telegram updates, messages and attachments.                             *)
(***************************************************************************)
KindOrder ==
    <<"document", "photo", "video", "audio", "voice", "video_note", "animation", "sticker">>

\* the attachment object a message of the model carries for a kind
Attachment(kind) ==
    CASE kind = "document" ->
            [file_id |-> "f_doc", file_unique_id |-> "u_doc", file_size |-> 26214400,
             file_name |-> "report", mime_type |-> "application/pdf"]
      [] kind = "video" ->
            [file_id |-> "f_vid", file_unique_id |-> "u_vid", file_size |-> NoNumber,
             file_name |-> "clip.mp4", mime_type |-> UNDEF]
      [] kind = "voice" ->
            [file_id |-> "f_voice", file_unique_id |-> "u_voice", file_size |-> 1,
             file_name |-> UNDEF, mime_type |-> UNDEF]
      [] OTHER ->
            [file_id |-> "f_" \o kind, file_unique_id |-> "u_" \o kind, file_size |-> NoNumber,
             file_name |-> UNDEF, mime_type |-> UNDEF]

\* msg.photo is an array of sizes; each entry is named by its file_id
PhotoEntry(id) ==
    [file_id |-> id, file_unique_id |-> "u_" \o id, file_size |-> NoNumber,
     file_name |-> UNDEF, mime_type |-> UNDEF]

NoMsg ==
    [present |-> FALSE, hasChat |-> FALSE, chat_id |-> 0, hasMessageId |-> FALSE,
     message_id |-> 0, att |-> {}, photo |-> <<>>]

Msg(chat, mid, att, photo) ==
    [present |-> TRUE, hasChat |-> TRUE, chat_id |-> chat, hasMessageId |-> TRUE,
     message_id |-> mid, att |-> att, photo |-> photo]

Update(uid, m, cp, em) ==
    [hasUpdateId |-> TRUE, update_id |-> uid, message |-> m, channel_post |-> cp,
     edited_message |-> em]

EmptyUpdate ==
    [hasUpdateId |-> FALSE, update_id |-> 0, message |-> NoMsg, channel_post |-> NoMsg,
     edited_message |-> NoMsg]

\* the fields extractFiles copies: file_name for a document, video, audio or
\* animation only, mime_type for everything but a photo
FileInfoOf(a, type) ==
    [file_id |-> a.file_id, file_unique_id |-> a.file_unique_id, file_size |-> a.file_size,
     file_name |-> IF type \in {"document", "video", "audio", "animation"}
                   THEN a.file_name ELSE UNDEF,
     mime_type |-> IF type = "photo" THEN UNDEF ELSE a.mime_type,
     type |-> type]

\* a message with one attachment of a kind, carrying the object given
MsgWith(chat, mid, kind, a) ==
    [present |-> TRUE, hasChat |-> TRUE, chat_id |-> chat, hasMessageId |-> TRUE,
     message_id |-> mid, att |-> {kind}, photo |-> <<>>, given |-> a]

\* msg.document, msg.video, ...: the object of the message
AttachmentOf(msg, kind) ==
    IF "given" \in DOMAIN msg THEN msg.given ELSE Attachment(kind)

\* seeded fault: every photo size is kept, not only the largest
RECURSIVE extractFiles_AllPhotos(_, _)
extractFiles_AllPhotos(msg, k) ==
    IF k > Len(KindOrder) THEN <<>>
    ELSE LET kind == KindOrder[k]
             here == IF kind = "photo"
                     THEN [j \in 1..Len(msg.photo) |-> FileInfoOf(PhotoEntry(msg.photo[j]), kind)]
                     ELSE IF kind \in msg.att THEN <<FileInfoOf(AttachmentOf(msg, kind), kind)>>
                     ELSE <<>>
         IN  here \o extractFiles_AllPhotos(msg, k + 1)

\* one FileInfo per attachment kind present, in the fixed order of the code
RECURSIVE extractFiles(_, _)
extractFiles(msg, k) ==
    IF k > Len(KindOrder) THEN <<>>
    ELSE LET kind == KindOrder[k]
             here == IF kind = "photo"
                     THEN IF Len(msg.photo) > 0
                          THEN <<FileInfoOf(PhotoEntry(msg.photo[Len(msg.photo)]), kind)>>
                          ELSE <<>>
                     ELSE IF kind \in msg.att THEN <<FileInfoOf(AttachmentOf(msg, kind), kind)>>
                     ELSE <<>>
         IN  here \o extractFiles(msg, k + 1)

\* update.message ?? update.channel_post ?? update.edited_message
MessageOf(u) ==
    IF u.message.present THEN u.message
    ELSE IF u.channel_post.present THEN u.channel_post
    ELSE u.edited_message

UpdateType(u) ==
    IF u.message.present THEN "message"
    ELSE IF u.channel_post.present THEN "channel_post"
    ELSE "edited_message"

\* getMessage(msg) returns null
getMessageIsNull(msg) == ~msg.hasChat \/ ~msg.hasMessageId

(***************************************************************************)
(* MIME type, filename and block type inference, with the string functions *)
(* the code uses.                                                          *)
(***************************************************************************)
\* the file_path Telegram's getFile answers for a file
FilePathOf(file) ==
    CASE file.type = "document" -> "documents/file_1"
      [] file.type = "photo" -> "photos/file_2.jpg"
      [] file.type = "video" -> "videos/file_3.MP4"
      [] file.type = "voice" -> "voice/file_4.oga"
      [] OTHER -> "files/file_5.bin"

UpperCase ==
    <<"A", "B", "C", "D", "E", "F", "G", "H", "I", "J", "K", "L", "M",
      "N", "O", "P", "Q", "R", "S", "T", "U", "V", "W", "X", "Y", "Z">>

LowerCase ==
    <<"a", "b", "c", "d", "e", "f", "g", "h", "i", "j", "k", "l", "m",
      "n", "o", "p", "q", "r", "s", "t", "u", "v", "w", "x", "y", "z">>

\* [a-z0-9] under the i flag
AlphaNum ==
    {UpperCase[i] : i \in 1..26} \cup {LowerCase[i] : i \in 1..26}
    \cup {"0", "1", "2", "3", "4", "5", "6", "7", "8", "9"}

WhiteSpace == {" ", "\t"}

CharAt(s, i) == SubSeq(s, i, i)

Positions(s, c) == {i \in 1..Len(s) : CharAt(s, i) = c}

\* a value an if (...) of the code takes as absent: undefined, null or ""
Falsy(s) == s = UNDEF \/ s = ""

toLowerChar(c) ==
    IF \E i \in 1..26 : UpperCase[i] = c
    THEN LowerCase[CHOOSE i \in 1..26 : UpperCase[i] = c]
    ELSE c

RECURSIVE toLowerCase(_)
toLowerCase(s) ==
    IF Len(s) = 0 THEN "" ELSE toLowerChar(CharAt(s, 1)) \o toLowerCase(Tail(s))

RECURSIVE trimStart(_)
trimStart(s) ==
    IF Len(s) > 0 /\ CharAt(s, 1) \in WhiteSpace THEN trimStart(Tail(s)) ELSE s

RECURSIVE trimEnd(_)
trimEnd(s) ==
    IF Len(s) > 0 /\ CharAt(s, Len(s)) \in WhiteSpace
    THEN trimEnd(SubSeq(s, 1, Len(s) - 1))
    ELSE s

trim(s) == trimEnd(trimStart(s))

startsWith(s, prefix) == Len(s) >= Len(prefix) /\ SubSeq(s, 1, Len(prefix)) = prefix

endsWith(s, suffix) ==
    Len(s) >= Len(suffix) /\ SubSeq(s, Len(s) - Len(suffix) + 1, Len(s)) = suffix

\* s.split(c)[0]
SplitFirst(s, c) ==
    IF Positions(s, c) = {} THEN s
    ELSE SubSeq(s, 1, (CHOOSE i \in Positions(s, c) : \A j \in Positions(s, c) : i <= j) - 1)

\* s.split(c).pop()
SplitLast(s, c) ==
    IF Positions(s, c) = {} THEN s
    ELSE SubSeq(s, (CHOOSE i \in Positions(s, c) : \A j \in Positions(s, c) : i >= j) + 1,
                Len(s))

\* /\.([a-z0-9]{1,10})$/i, lower-cased: the group holds no dot, so the dot it
\* follows is the last one of the name
extensionFromName(name) ==
    IF Falsy(name) THEN UNDEF
    ELSE IF Positions(name, ".") = {} THEN UNDEF
    ELSE LET ext == SplitLast(name, ".")
         IN  IF Len(ext) \in 1..10 /\ \A i \in 1..Len(ext) : CharAt(ext, i) \in AlphaNum
             THEN toLowerCase(ext)
             ELSE UNDEF

EXTENSION_TO_MIME ==
    [jpg |-> "image/jpeg", jpeg |-> "image/jpeg", png |-> "image/png",
     webp |-> "image/webp", gif |-> "image/gif", bmp |-> "image/bmp",
     svg |-> "image/svg+xml", mp4 |-> "video/mp4", mov |-> "video/quicktime",
     webm |-> "video/webm", mkv |-> "video/x-matroska", m4v |-> "video/x-m4v",
     mp3 |-> "audio/mpeg", m4a |-> "audio/mp4", ogg |-> "audio/ogg", oga |-> "audio/ogg",
     opus |-> "audio/ogg", wav |-> "audio/wav", flac |-> "audio/flac",
     pdf |-> "application/pdf", txt |-> "text/plain", json |-> "application/json",
     csv |-> "text/csv", zip |-> "application/zip"]

MIME_TO_EXTENSION ==
    ("image/jpeg" :> "jpg") @@ ("image/png" :> "png") @@ ("image/webp" :> "webp")
    @@ ("image/gif" :> "gif") @@ ("video/mp4" :> "mp4") @@ ("video/quicktime" :> "mov")
    @@ ("video/webm" :> "webm") @@ ("video/x-matroska" :> "mkv")
    @@ ("audio/mpeg" :> "mp3") @@ ("audio/mp4" :> "m4a") @@ ("audio/ogg" :> "ogg")
    @@ ("audio/wav" :> "wav") @@ ("audio/flac" :> "flac") @@ ("application/pdf" :> "pdf")
    @@ ("text/plain" :> "txt") @@ ("application/json" :> "json") @@ ("text/csv" :> "csv")

mimeFromExtension(ext) ==
    IF Falsy(ext) THEN UNDEF
    ELSE IF toLowerCase(ext) \in DOMAIN EXTENSION_TO_MIME
         THEN EXTENSION_TO_MIME[toLowerCase(ext)]
         ELSE UNDEF

extensionFromMime(mime) ==
    IF Falsy(mime) THEN UNDEF
    ELSE IF toLowerCase(mime) \in DOMAIN MIME_TO_EXTENSION
         THEN MIME_TO_EXTENSION[toLowerCase(mime)]
         ELSE UNDEF

\* responseMimeType?.split(";")[0]?.trim().toLowerCase(); UNDEF is the null of a
\* response without the header
ResponseMime(contentType) ==
    IF contentType = UNDEF THEN UNDEF
    ELSE toLowerCase(trim(SplitFirst(contentType, ";")))

\* seeded fault: the extension of the name is looked at before the declared type
\* and the Content-Type of the download
inferMimeType_NameFirst(file, responseMimeType, filePath) ==
    LET responseMime == ResponseMime(responseMimeType)
        fromName == mimeFromExtension(extensionFromName(file.file_name))
        fromPath == mimeFromExtension(extensionFromName(filePath))
    IN  IF ~Falsy(fromName) THEN fromName
        ELSE IF ~Falsy(file.mime_type) THEN file.mime_type
        ELSE IF ~Falsy(responseMime) THEN responseMime
        ELSE IF ~Falsy(fromPath) THEN fromPath
        ELSE IF file.type = "photo" THEN "image/jpeg"
        ELSE IF file.type \in {"video", "video_note", "animation"} THEN "video/mp4"
        ELSE IF file.type \in {"audio", "voice"} THEN "audio/ogg"
        ELSE IF file.type = "sticker" THEN "image/webp"
        ELSE "application/octet-stream"

inferMimeType(file, responseMimeType, filePath) ==
    LET responseMime == ResponseMime(responseMimeType)
        fromName == mimeFromExtension(extensionFromName(file.file_name))
        fromPath == mimeFromExtension(extensionFromName(filePath))
    IN  IF ~Falsy(file.mime_type) THEN file.mime_type
        ELSE IF ~Falsy(responseMime) THEN responseMime
        ELSE IF ~Falsy(fromName) THEN fromName
        ELSE IF ~Falsy(fromPath) THEN fromPath
        ELSE IF file.type = "photo" THEN "image/jpeg"
        ELSE IF file.type \in {"video", "video_note", "animation"} THEN "video/mp4"
        ELSE IF file.type \in {"audio", "voice"} THEN "audio/ogg"
        ELSE IF file.type = "sticker" THEN "image/webp"
        ELSE "application/octet-stream"

\* filePath?.split("/").pop()
BaseName(filePath) ==
    IF filePath = UNDEF THEN UNDEF ELSE SplitLast(filePath, "/")

\* .replace(/[^\w.\-]+/g, "_"), one character at a time: the runs are joined by
\* the replacement that follows
RECURSIVE ReplaceOthers(_)
ReplaceOthers(s) ==
    IF Len(s) = 0 THEN ""
    ELSE (IF CharAt(s, 1) \in AlphaNum \cup {"_", ".", "-"} THEN CharAt(s, 1) ELSE "_")
         \o ReplaceOthers(Tail(s))

\* .replace(/_{2,}/g, "_")
RECURSIVE JoinUnderscores(_)
JoinUnderscores(s) ==
    IF Len(s) < 2 THEN s
    ELSE IF CharAt(s, 1) = "_" /\ CharAt(s, 2) = "_" THEN JoinUnderscores(Tail(s))
    ELSE CharAt(s, 1) \o JoinUnderscores(Tail(s))

sanitizeFilename(filename) ==
    LET cleaned == JoinUnderscores(ReplaceOthers(trim(filename)))
        fallback == IF cleaned = "" THEN "telegram_file" ELSE cleaned
    IN  IF Len(fallback) > 180 THEN SubSeq(fallback, 1, 180) ELSE fallback

inferFilename(file, filePath, mimeType) ==
    IF ~Falsy(file.file_name) THEN sanitizeFilename(file.file_name)
    ELSE IF ~Falsy(BaseName(filePath)) THEN sanitizeFilename(BaseName(filePath))
    ELSE LET e == extensionFromMime(mimeType)
         IN  sanitizeFilename(file.type \o "_" \o file.file_unique_id \o "."
                              \o (IF e # UNDEF THEN e ELSE "bin"))

\* lowerMime.startsWith(...)
MimePrefix(mime) ==
    CASE startsWith(toLowerCase(mime), "image/") -> "image/"
      [] startsWith(toLowerCase(mime), "video/") -> "video/"
      [] startsWith(toLowerCase(mime), "audio/") -> "audio/"
      [] OTHER -> "other"

\* lowerName.endsWith(".pdf")
EndsWithPdf(filename) == endsWith(toLowerCase(filename), ".pdf")

\* seeded fault: the Telegram type is looked at before the PDF test
inferNotionBlockType_TypeFirst(file, mimeType, filename) ==
    IF MimePrefix(mimeType) = "image/" THEN "image"
    ELSE IF MimePrefix(mimeType) = "video/" THEN "video"
    ELSE IF MimePrefix(mimeType) = "audio/" THEN "audio"
    ELSE IF file.type = "photo" THEN "image"
    ELSE IF file.type \in {"video", "video_note"} THEN "video"
    ELSE IF file.type \in {"audio", "voice"} THEN "audio"
    ELSE IF toLowerCase(mimeType) = "application/pdf" \/ EndsWithPdf(filename) THEN "pdf"
    ELSE "file"

inferNotionBlockType(file, mimeType, filename) ==
    IF MimePrefix(mimeType) = "image/" THEN "image"
    ELSE IF MimePrefix(mimeType) = "video/" THEN "video"
    ELSE IF MimePrefix(mimeType) = "audio/" THEN "audio"
    ELSE IF toLowerCase(mimeType) = "application/pdf" \/ EndsWithPdf(filename) THEN "pdf"
    ELSE IF file.type = "photo" THEN "image"
    ELSE IF file.type \in {"video", "video_note"} THEN "video"
    ELSE IF file.type \in {"audio", "voice"} THEN "audio"
    ELSE "file"

(***************************************************************************)
(* Upload size arithmetic.                                                 *)
(***************************************************************************)
\* seeded fault: floor instead of ceil
numberOfParts_Floor(actualSize) ==
    Max2(1, actualSize \div NOTION_SINGLE_PART_UPLOAD_BYTES)

\* Math.max(1, Math.ceil(actualSize / NOTION_SINGLE_PART_UPLOAD_BYTES))
numberOfParts(actualSize) ==
    Max2(1, (actualSize + NOTION_SINGLE_PART_UPLOAD_BYTES - 1)
                \div NOTION_SINGLE_PART_UPLOAD_BYTES)

\* seeded fault: a file of exactly the maximum is refused
ExceedsMax_AtLeast(actualSize, maxUploadBytes) == actualSize >= maxUploadBytes

\* actualSize > maxUploadBytes
ExceedsMax(actualSize, maxUploadBytes) == actualSize > maxUploadBytes

\* the byte lengths a download of the model may have
DownloadSizes ==
    {0, NOTION_SINGLE_PART_UPLOAD_BYTES, NOTION_SINGLE_PART_UPLOAD_BYTES + 1,
     getMaxUploadBytes, getMaxUploadBytes + 1}

ContentTypes == {UNDEF, "Audio/OGG; codecs=opus"}

\* the file whose getFile and download answers are drawn from the wider sets
AnyFileId == "f_any"

InferContentTypes == {UNDEF, "Audio/OGG; codecs=opus", "; charset=utf-8", " Text/Plain "}

InferPaths == {"documents/file_1", "music/track_7.MP3", "documents/"}

\* the Content-Type headers a download of the file may carry
ContentTypesOf(file) ==
    IF file.file_id = AnyFileId THEN InferContentTypes ELSE ContentTypes

\* the file_path values getFile may answer for the file
FilePaths(file) ==
    IF file.file_id = AnyFileId THEN InferPaths ELSE {FilePathOf(file)}

(***************************************************************************)
(* The Notion database schema.                                             *)
(***************************************************************************)
\* name.toLowerCase().replace(/[^a-z0-9]/g, ""), over the property names of the model
normalizeName(name) ==
    CASE name \in {"Update ID", "update-id"} -> "updateid"
      [] name = "Telegram Update ID" -> "telegramupdateid"
      [] name \in {"Chat ID", "chat_id"} -> "chatid"
      [] name = "Message ID" -> "messageid"
      [] OTHER -> name

\* the name of a property of that type whose normalized name is wanted, or undefined
findPropertyName(properties, type, candidates) ==
    LET wanted == {normalizeName(c) : c \in candidates}
        hits == {q \in properties : q.type = type /\ normalizeName(q.name) \in wanted}
    IN  IF hits = {} THEN UNDEF ELSE (CHOOSE q \in hits : TRUE).name

NoSchema == [chatIdProp |-> UNDEF, messageIdProp |-> UNDEF, updateIdProp |-> UNDEF]

resolveTelegramNotionSchema(properties) ==
    [chatIdProp |-> findPropertyName(properties, "number", {"Chat ID", "Telegram Chat ID"}),
     messageIdProp |->
         findPropertyName(properties, "number", {"Message ID", "Telegram Message ID"}),
     updateIdProp |->
         findPropertyName(properties, "number", {"Update ID", "Telegram Update ID"})]

Prop(name, type) == [name |-> name, type |-> type]

\* seeded fault: the Update-ID property is ignored
DedupeFilter_NoUpdateId(schema, hasUpdateId) ==
    IF schema.chatIdProp # UNDEF /\ schema.messageIdProp # UNDEF THEN "chat_message"
    ELSE "none"

\* seeded fault: the chat and message ids are looked at first
DedupeFilter_ChatFirst(schema, hasUpdateId) ==
    IF schema.chatIdProp # UNDEF /\ schema.messageIdProp # UNDEF THEN "chat_message"
    ELSE IF schema.updateIdProp # UNDEF /\ hasUpdateId THEN "update"
    ELSE "none"

\* the filter hasExistingTelegramPage builds: on the update id, on chat and message id, or none
DedupeFilter(schema, hasUpdateId) ==
    IF schema.updateIdProp # UNDEF /\ hasUpdateId THEN "update"
    ELSE IF schema.chatIdProp # UNDEF /\ schema.messageIdProp # UNDEF THEN "chat_message"
    ELSE "none"

\* numberEqualsFilter(property, value), one per condition of the filter
FilterConditions(filter, schema, u) ==
    IF filter = "update" THEN {[property |-> schema.updateIdProp, equals |-> u.update_id]}
    ELSE IF filter = "chat_message"
    THEN {[property |-> schema.chatIdProp, equals |-> MessageOf(u).chat_id],
          [property |-> schema.messageIdProp, equals |-> MessageOf(u).message_id]}
    ELSE {}

\* seeded fault: the query never finds a row
QueryFinds_Never(filter, u) == FALSE

\* seeded fault: the chat id is compared with the Message-ID property and the
\* message id with the Chat-ID property
QueryFinds_Swapped(filter, u) ==
    LET m == MessageOf(u)
    IN  \E k \in 1..Len(pages) :
            IF filter = "update" THEN pages[k].props.update_id = u.update_id
            ELSE /\ pages[k].props.chat_id = m.message_id
                 /\ pages[k].props.message_id = m.chat_id

\* seeded fault: a page whose ledger has a failed upload does not count as found
QueryFinds_SkipFailed(filter, u) ==
    LET m == MessageOf(u)
    IN  \E k \in 1..Len(pages) :
            /\ IF filter = "update" THEN pages[k].props.update_id = u.update_id
               ELSE /\ pages[k].props.chat_id = m.chat_id
                    /\ pages[k].props.message_id = m.message_id
            /\ \A b \in 1..Len(pages[k].children) :
                  \A j \in 1..Len(pages[k].children[b].uploads) :
                      pages[k].children[b].uploads[j].status # "failed"

\* databases.query with that filter finds a row
QueryFinds(filter, u) ==
    LET m == MessageOf(u)
    IN  \E k \in 1..Len(pages) :
            IF filter = "update" THEN pages[k].props.update_id = u.update_id
            ELSE /\ pages[k].props.chat_id = m.chat_id
                 /\ pages[k].props.message_id = m.message_id

\* the number properties pages.create sets
PageProps(schema, u) ==
    LET m == MessageOf(u)
    IN  [chat_id |-> IF schema.chatIdProp # UNDEF THEN m.chat_id ELSE NoNumber,
         message_id |-> IF schema.messageIdProp # UNDEF THEN m.message_id ELSE NoNumber,
         update_id |-> IF schema.updateIdProp # UNDEF /\ u.hasUpdateId
                       THEN u.update_id ELSE NoNumber]

(***************************************************************************)
(* Requests and responses.                                                 *)
(***************************************************************************)
Pending == [kind |-> "pending", status |-> 0, ok |-> FALSE]
Json(status, ok) == [kind |-> "json", status |-> status, ok |-> ok]
NotFound == [kind |-> "text", status |-> 404, ok |-> FALSE]
\* the handler throws: no response is written by the code
Thrown == [kind |-> "thrown", status |-> 0, ok |-> FALSE]

NoHeader == [kind |-> "absent", val |-> <<>>]
NoRequest == [method |-> "", header |-> NoHeader, body |-> [form |-> "absent", update |-> EmptyUpdate]]

NoCur ==
    [filePath |-> UNDEF, payload |-> NoNumber, actualSize |-> 0, contentType |-> UNDEF,
     mimeType |-> UNDEF,
     filename |-> UNDEF, numberOfParts |-> 0, uploadId |-> NoNumber, part |-> 0]

IdleReq ==
    [kind |-> "idle", pc |-> "idle", in |-> NoRequest, upd |-> EmptyUpdate,
     after |-> {}, schema |-> NoSchema, filter |-> {}, files |-> <<>>, i |-> 0, cur |-> NoCur,
     uploadStates |-> <<>>, uploadedBlocks |-> <<>>, pageId |-> 0,
     resp |-> Pending, calls |-> <<>>,
     notionToken |-> FALSE, offset |-> NoNumber, limit |-> 0, batch |-> <<>>, bi |-> 0,
     out |-> <<>>, lastOffset |-> NoNumber]

Call(upd, op, file, part, res) ==
    [upd |-> upd, op |-> op, file |-> file, part |-> part, res |-> res]

\* req.body: a parsed object, absent, or a string that is parsed here
ParsedBody(body) == IF body.form \in {"object", "text_object"} THEN body.update ELSE EmptyUpdate

\* seeded fault: the tokens are checked before the secret
Gate_TokensFirst(r) ==
    LET requireSecret == isTrueEnvFlag(env.requireSecret)
        update == ParsedBody(r.body)
        msg == MessageOf(update)
    IN  IF r.method # "POST" THEN NotFound
        ELSE IF ~env.notionToken \/ ~env.telegramToken THEN Json(500, FALSE)
        ELSE IF requireSecret /\ ~SecretConfigured THEN Json(500, FALSE)
        ELSE IF ~isAuthorizedTelegramWebhookRequest(getHeaderValue(r.header), requireSecret)
             THEN Json(401, FALSE)
        ELSE IF r.body.form = "text_badjson" THEN Json(400, FALSE)
        ELSE IF r.body.form = "text_null" THEN Thrown
        ELSE IF ~update.hasUpdateId THEN Json(400, FALSE)
        ELSE IF ~msg.present THEN Json(200, TRUE)
        ELSE IF getMessageIsNull(msg) THEN Json(200, TRUE)
        ELSE Pending

\* seeded fault: the handler does not look at the tokens before it starts
Gate_NoTokenCheck(r) ==
    LET requireSecret == isTrueEnvFlag(env.requireSecret)
        update == ParsedBody(r.body)
        msg == MessageOf(update)
    IN  IF r.method # "POST" THEN NotFound
        ELSE IF requireSecret /\ ~SecretConfigured THEN Json(500, FALSE)
        ELSE IF ~isAuthorizedTelegramWebhookRequest(getHeaderValue(r.header), requireSecret)
             THEN Json(401, FALSE)
        ELSE IF r.body.form = "text_badjson" THEN Json(400, FALSE)
        ELSE IF r.body.form = "text_null" THEN Thrown
        ELSE IF ~update.hasUpdateId THEN Json(400, FALSE)
        ELSE IF ~msg.present THEN Json(200, TRUE)
        ELSE IF getMessageIsNull(msg) THEN Json(200, TRUE)
        ELSE Pending

\* the handler up to its first outbound call: the response it writes, or Pending
Gate(r) ==
    LET requireSecret == isTrueEnvFlag(env.requireSecret)
        update == ParsedBody(r.body)
        msg == MessageOf(update)
    IN  IF r.method # "POST" THEN NotFound
        ELSE IF requireSecret /\ ~SecretConfigured THEN Json(500, FALSE)
        ELSE IF ~isAuthorizedTelegramWebhookRequest(getHeaderValue(r.header), requireSecret)
             THEN Json(401, FALSE)
        ELSE IF ~env.notionToken \/ ~env.telegramToken THEN Json(500, FALSE)
        ELSE IF r.body.form = "text_badjson" THEN Json(400, FALSE)
        \* JSON.parse("null") is null: update.update_id throws a TypeError
        ELSE IF r.body.form = "text_null" THEN Thrown
        ELSE IF ~update.hasUpdateId THEN Json(400, FALSE)
        ELSE IF ~msg.present THEN Json(200, TRUE)
        ELSE IF getMessageIsNull(msg) THEN Json(200, TRUE)
        ELSE Pending

(***************************************************************************)
(* uploadTelegramFileToNotion: the outcome records.                        *)
(***************************************************************************)
Reason(text, num) == [text |-> text, num |-> num]

\* baseState: the values declared by Telegram, before any download
BaseState(file) ==
    [file_id |-> file.file_id, file_unique_id |-> file.file_unique_id, type |-> file.type,
     file_name |-> sanitizeFilename(IF file.file_name # UNDEF THEN file.file_name
                                    ELSE file.type \o "_" \o file.file_unique_id),
     mime_type |-> IF file.mime_type # UNDEF THEN file.mime_type
                   ELSE "application/octet-stream",
     size_bytes |-> IF file.file_size # NoNumber THEN file.file_size ELSE 0,
     status |-> "", notion_file_upload_id |-> NoNumber, notion_block_type |-> UNDEF,
     reason |-> NoReason]

NoBlock == [type |-> "", file_upload_id |-> NoNumber, uploads |-> <<>>, error |-> ""]
AttachmentBlock(blockType, id) ==
    [type |-> blockType, file_upload_id |-> id, uploads |-> <<>>, error |-> ""]
\* seeded fault: the ledger lists the uploaded files only
LedgerBlock_UploadedOnly(uploadStates) ==
    [type |-> "ledger", file_upload_id |-> NoNumber,
     uploads |-> SelectSeq(uploadStates, LAMBDA st : st.status = "uploaded"), error |-> ""]

LedgerBlock(uploadStates) ==
    [type |-> "ledger", file_upload_id |-> NoNumber, uploads |-> uploadStates, error |-> ""]
ErrorNoteBlock ==
    [type |-> "note", file_upload_id |-> NoNumber, uploads |-> <<>>,
     error |-> "upload_block_append_error"]

Result(state, block) == [uploadState |-> state, block |-> block]

\* seeded fault: the error escapes with no outcome record
FailedResult_NoStatus(file, reason) == Result(BaseState(file), NoBlock)

\* seeded fault: a failed file still yields a block
FailedResult_WithBlock(file, reason) ==
    Result([BaseState(file) EXCEPT !.status = "failed", !.reason = reason],
           AttachmentBlock("file", NoNumber))

\* the returns with status failed (no file_path, download not ok, the catch)
FailedResult(file, reason) ==
    Result([BaseState(file) EXCEPT !.status = "failed", !.reason = reason], NoBlock)

\* seeded fault: the skipped entry keeps the declared name, type and size
SkippedResult_Declared(file, cur, maxUploadBytes) ==
    Result([BaseState(file) EXCEPT !.status = "skipped",
                                   !.reason = Reason("File exceeds TELEGRAM_NOTION_MAX_FILE_BYTES",
                                                     maxUploadBytes)],
           NoBlock)

SkippedResult(file, cur, maxUploadBytes) ==
    Result([BaseState(file) EXCEPT !.file_name = cur.filename, !.mime_type = cur.mimeType,
                                   !.size_bytes = cur.actualSize, !.status = "skipped",
                                   !.reason = Reason("File exceeds TELEGRAM_NOTION_MAX_FILE_BYTES",
                                                     maxUploadBytes)],
           NoBlock)

UploadedResult(file, cur) ==
    LET blockType == inferNotionBlockType(file, cur.mimeType, cur.filename)
    IN  Result([BaseState(file) EXCEPT !.file_name = cur.filename, !.mime_type = cur.mimeType,
                                       !.size_bytes = cur.actualSize, !.status = "uploaded",
                                       !.notion_file_upload_id = cur.uploadId,
                                       !.notion_block_type = blockType],
               AttachmentBlock(blockType, cur.uploadId))

\* seeded fault: only the files that were uploaded get an entry
PushState_UploadedOnly(uploadStates, result) ==
    IF result.uploadState.status = "uploaded" THEN Append(uploadStates, result.uploadState)
    ELSE uploadStates

\* uploadStates.push(result.uploadState)
PushState(uploadStates, result) == Append(uploadStates, result.uploadState)

\* seeded fault: every file gets a block, uploaded or not
PushBlock_Always(uploadedBlocks, result) ==
    Append(uploadedBlocks,
           IF result.block # NoBlock THEN result.block
           ELSE AttachmentBlock("file", result.uploadState.notion_file_upload_id))

\* if (result.block) uploadedBlocks.push(result.block)
PushBlock(uploadedBlocks, result) ==
    IF result.block # NoBlock THEN Append(uploadedBlocks, result.block) ELSE uploadedBlocks

\* seeded fault: a failed file ends the request
FileDone_RaiseOnFailure(r, result) ==
    IF result.uploadState.status = "failed"
    THEN [r EXCEPT !.pc = "done",
                   !.resp = IF r.kind = "webhook" THEN Json(500, FALSE) ELSE Thrown]
    ELSE [r EXCEPT !.uploadStates = PushState(@, result),
                   !.uploadedBlocks = PushBlock(@, result),
                   !.cur = NoCur,
                   !.i = @ + 1,
                   !.pc = IF r.i + 1 > Len(r.files) THEN "ledger" ELSE "getFile"]

\* the caller's loop body after uploadTelegramFileToNotion returned
FileDone(r, result) ==
    [r EXCEPT !.uploadStates = PushState(@, result),
              !.uploadedBlocks = PushBlock(@, result),
              !.cur = NoCur,
              !.i = @ + 1,
              !.pc = IF r.i + 1 > Len(r.files) THEN "ledger" ELSE "getFile"]

\* the record of an outbound call: for a file of the update in hand, or for the update;
\* part is the part_number of a send, the byte length of a downloaded body and the
\* HTTP status of a download that was refused
Logged(r, op, part, res) ==
    [r EXCEPT !.calls = Append(@, Call(r.bi, op, r.i, part, res))]
LoggedH(r, op, res) == [r EXCEPT !.calls = Append(@, Call(r.bi, op, 0, 0, res))]

Set(p, r) == req' = [req EXCEPT ![p] = r]

(***************************************************************************)
(* uploadTelegramFileToNotion: one step per outbound call.                 *)
(***************************************************************************)
GetFileOutcomes == {"ok", "no_file_path", "not_ok", "throws"}

\* seeded fault: the download is tried although getFile gave no file_path
GetFile_DownloadAnyway ==
  \E p \in DOMAIN req :
    /\ req[p].pc = "getFile"
    /\ \E o \in GetFileOutcomes, path \in FilePaths(req[p].files[req[p].i]) :
        LET r == Logged(req[p], "getFile", 0, o)
            file == r.files[r.i]
        IN  Set(p, CASE o = "ok" ->
                          [r EXCEPT !.pc = "download", !.cur.filePath = path]
                     [] o = "no_file_path" -> [r EXCEPT !.pc = "download"]
                     [] OTHER -> FileDone(r, FailedResult(file, Reason("getFile " \o o, 0))))
    /\ UNCHANGED <<env, db, pages, sessions>>

GetFile ==
  \E p \in DOMAIN req :
    /\ req[p].pc = "getFile"
    /\ \E o \in GetFileOutcomes, path \in FilePaths(req[p].files[req[p].i]) :
        LET r == Logged(req[p], "getFile", 0, o)
            file == r.files[r.i]
        IN  Set(p, CASE o = "ok" ->
                          [r EXCEPT !.pc = "download", !.cur.filePath = path]
                     [] o = "no_file_path" ->
                          FileDone(r, FailedResult(file,
                              Reason("Telegram getFile did not return file_path", 0)))
                     [] OTHER -> FileDone(r, FailedResult(file, Reason("getFile " \o o, 0))))
    /\ UNCHANGED <<env, db, pages, sessions>>

\* the download answered 2xx and its body, of that size, has been read into
\* payload; the type and the name are inferred
Downloaded(r, size, contentType) ==
    LET file == r.files[r.i]
        mimeType == inferMimeType(file, contentType, r.cur.filePath)
        filename == inferFilename(file, r.cur.filePath, mimeType)
        cur == [r.cur EXCEPT !.payload = size, !.actualSize = size,
                             !.contentType = contentType, !.mimeType = mimeType,
                             !.filename = filename,
                             !.numberOfParts = numberOfParts(size)]
    IN  [r EXCEPT !.cur = cur, !.pc = "sizeCheck"]

\* if (actualSize > maxUploadBytes) return skipped, with the buffer in hand
SizeCheck ==
  \E p \in DOMAIN req :
    /\ req[p].pc = "sizeCheck"
    /\ LET r == req[p]
           maxUploadBytes == getMaxUploadBytes
       IN  Set(p, IF ExceedsMax(r.cur.actualSize, maxUploadBytes)
                  THEN FileDone(r, SkippedResult(r.files[r.i], r.cur, maxUploadBytes))
                  ELSE [r EXCEPT !.pc = "createUpload"])
    /\ UNCHANGED <<env, db, pages, sessions>>

Download ==
  \E p \in DOMAIN req :
    /\ req[p].pc = "download"
    /\ \/ \E size \in DownloadSizes,
               contentType \in ContentTypesOf(req[p].files[req[p].i]) :
            Set(p, Downloaded(Logged(req[p], "download", size, "ok"), size, contentType))
       \/ \E status \in {404, 500} :
            LET r == Logged(req[p], "download", status, "not_ok")
            IN  Set(p, FileDone(r, FailedResult(r.files[r.i],
                          Reason("Telegram file download failed", status))))
       \/ LET r == Logged(req[p], "download", 0, "throws")
          IN  Set(p, FileDone(r, FailedResult(r.files[r.i], Reason("download throws", 0))))
    /\ UNCHANGED <<env, db, pages, sessions>>

NewSession(p, r) ==
    [mode |-> IF r.cur.numberOfParts > 1 THEN "multi_part" ELSE "single_part",
     number_of_parts |-> IF r.cur.numberOfParts > 1 THEN r.cur.numberOfParts ELSE NoNumber,
     sent |-> <<>>, completed |-> FALSE, by |-> p, file |-> r.i]

\* POST /file_uploads.  no_id: the answer is 2xx and carries no id; the webhook
\* asserts the id, the polling tool goes on with an undefined id
CreateUpload ==
  \E p \in DOMAIN req :
    /\ req[p].pc = "createUpload"
    /\ \E o \in {"ok", "error", "no_id"} :
        LET r == Logged(req[p], "create", 0, o)
            file == r.files[r.i]
        IN  /\ sessions' = IF o = "error" THEN sessions ELSE Append(sessions, NewSession(p, r))
            /\ Set(p, CASE o = "ok" ->
                             [r EXCEPT !.pc = "send", !.cur.uploadId = Len(sessions) + 1]
                        [] o = "no_id" /\ r.kind = "poll" -> [r EXCEPT !.pc = "send"]
                        [] OTHER -> FileDone(r, FailedResult(file, Reason("create " \o o, 0))))
    /\ UNCHANGED <<env, db, pages>>

\* seeded fault: the end of the last part is not cut at the size of the buffer
PartRange_NoClamp(part, actualSize) ==
    LET start == part * NOTION_SINGLE_PART_UPLOAD_BYTES
    IN  [start |-> start, end |-> start + NOTION_SINGLE_PART_UPLOAD_BYTES]

\* the bytes [start, end) of part number part + 1
PartRange(part, actualSize) ==
    LET start == part * NOTION_SINGLE_PART_UPLOAD_BYTES
    IN  [start |-> start,
         end |-> Min2(start + NOTION_SINGLE_PART_UPLOAD_BYTES, actualSize)]

\* one pass of the loop over the parts: POST /file_uploads/{id}/send
SendPart ==
  \E p \in DOMAIN req :
    /\ req[p].pc = "send"
    /\ \E o \in (IF req[p].cur.uploadId = NoNumber THEN {"error"} ELSE {"ok", "error"}) :
        LET r0 == req[p]
            part == r0.cur.part
            partNumber == IF r0.cur.numberOfParts > 1 THEN part + 1 ELSE NoNumber
            r == Logged(r0, "send", partNumber, o)
            file == r.files[r.i]
            range == PartRange(part, r.cur.actualSize)
        IN  IF o = "error"
            THEN /\ Set(p, FileDone(r, FailedResult(file, Reason("send error", 0))))
                 /\ UNCHANGED sessions
            ELSE /\ sessions' = [sessions EXCEPT ![r.cur.uploadId].sent =
                                    Append(@, [part_number |-> partNumber,
                                               start |-> range.start, end |-> range.end])]
                 /\ Set(p, IF part + 1 < r.cur.numberOfParts
                           THEN [r EXCEPT !.cur.part = part + 1]
                           ELSE IF r.cur.numberOfParts > 1
                           THEN [r EXCEPT !.cur.part = part + 1, !.pc = "complete"]
                           ELSE FileDone(r, UploadedResult(file, r.cur)))
    /\ UNCHANGED <<env, db, pages>>

\* POST /file_uploads/{id}/complete
CompleteUpload ==
  \E p \in DOMAIN req :
    /\ req[p].pc = "complete"
    /\ \E o \in {"ok", "error"} :
        LET r == Logged(req[p], "complete", 0, o)
            file == r.files[r.i]
        IN  IF o = "error"
            THEN /\ Set(p, FileDone(r, FailedResult(file, Reason("complete error", 0))))
                 /\ UNCHANGED sessions
            ELSE /\ sessions' = [sessions EXCEPT ![r.cur.uploadId].completed = TRUE]
                 /\ Set(p, FileDone(r, UploadedResult(file, r.cur)))
    /\ UNCHANGED <<env, db, pages>>

(***************************************************************************)
(* The polling tool's loop over the updates getUpdates returned.           *)
(***************************************************************************)
\* seeded fault: without the token the files are reported as failed
TokenMissingState_Failed(file) ==
    [BaseState(file) EXCEPT !.status = "failed",
                            !.reason = Reason("NOTION_API_TOKEN is missing", 0)]

\* the skipped entries the polling tool writes when NOTION_API_TOKEN is missing
TokenMissingState(file) ==
    [BaseState(file) EXCEPT
        !.file_name = IF file.file_name # UNDEF THEN file.file_name
                      ELSE file.type \o "_" \o file.file_unique_id,
        !.status = "skipped",
        !.reason = Reason("NOTION_API_TOKEN is missing; cannot upload Telegram files", 0)]

\* for (const u of updates): skip the updates without a message, stop at the end
RECURSIVE PollAdvance(_)
PollAdvance(r) ==
    LET k == r.bi + 1
    IN  IF k > Len(r.batch)
        THEN [r EXCEPT !.bi = k, !.pc = "done", !.files = <<>>, !.i = 0,
                       !.uploadStates = <<>>, !.uploadedBlocks = <<>>, !.pageId = 0,
                       !.resp = [kind |-> "returned", status |-> Len(r.out), ok |-> TRUE]]
        ELSE IF ~MessageOf(r.batch[k]).present
        THEN PollAdvance([r EXCEPT !.bi = k])
        ELSE [r EXCEPT !.bi = k, !.upd = r.batch[k],
                       !.files = extractFiles(MessageOf(r.batch[k]), 1),
                       !.i = 0, !.uploadStates = <<>>, !.uploadedBlocks = <<>>,
                       !.pageId = 0, !.pc = "create"]

\* seeded fault: last_offset is the update_id of the last update itself
PollPush_SameOffset(r) ==
    PollAdvance([r EXCEPT !.out = Append(@, [page_id |-> r.pageId,
                                            update_id |-> r.upd.update_id]),
                          !.lastOffset = r.upd.update_id])

\* pages.push(...); lastOffset = u.update_id + 1; then the next update
PollPush(r) ==
    PollAdvance([r EXCEPT !.out = Append(@, [page_id |-> r.pageId,
                                            update_id |-> r.upd.update_id]),
                          !.lastOffset = r.upd.update_id + 1])

(***************************************************************************)
(* The webhook handler and the polling tool: one step per outbound call.   *)
(***************************************************************************)
\* seeded fault: the error is swallowed and the request reports success
Abort_Swallow(r) == [r EXCEPT !.pc = "done", !.resp = Json(200, TRUE)]

\* an error thrown outside uploadTelegramFileToNotion: the webhook's catch answers
\* 500, the polling tool's execute rejects
Abort(r) ==
    IF r.kind = "webhook" THEN [r EXCEPT !.pc = "done", !.resp = Json(500, FALSE)]
    ELSE [r EXCEPT !.pc = "done", !.resp = Thrown]

\* what follows the attachment handling of one update
AfterBlocks(r) == IF r.kind = "webhook" THEN [r EXCEPT !.pc = "reaction"] ELSE PollPush(r)

\* the deliveries take the slots in order
Started(p) == IF p = 1 THEN TRUE ELSE req[p - 1].kind # "idle"
Finished == {q \in DOMAIN req : req[q].pc = "done"}

\* handler(req, res) up to its first await
HandlerEntry(Reqs) ==
  \E p \in DOMAIN req, r \in Reqs :
    /\ req[p].kind = "idle"
    /\ Started(p)
    /\ LET g == Gate(r)
           update == ParsedBody(r.body)
           base == [IdleReq EXCEPT !.kind = "webhook", !.in = r, !.after = Finished]
       IN  Set(p, IF g = Pending
                  THEN [base EXCEPT !.pc = "schema", !.upd = update,
                                    !.files = extractFiles(MessageOf(update), 1)]
                  ELSE [base EXCEPT !.pc = "done", !.resp = g])
    /\ UNCHANGED <<env, db, pages, sessions>>

\* getNotionSchemaProperties and resolveTelegramNotionSchema
FetchSchema ==
  \E p \in DOMAIN req :
    /\ req[p].pc = "schema"
    /\ \E o \in {"ok", "error", "no_properties"} :
        LET r == LoggedH(req[p], "schema", o)
        IN  Set(p, IF o = "ok"
                   THEN [r EXCEPT !.schema = resolveTelegramNotionSchema(db), !.pc = "dedupe"]
                   ELSE Abort(r))
    /\ UNCHANGED <<env, db, pages, sessions>>

\* hasExistingTelegramPage, and the early return when a row exists
DedupeCheck ==
  \E p \in DOMAIN req :
    /\ req[p].pc = "dedupe"
    /\ LET filter == DedupeFilter(req[p].schema, req[p].upd.hasUpdateId)
       IN  IF filter = "none"
           THEN Set(p, [req[p] EXCEPT !.pc = "create"])
           ELSE \E o \in {"ok", "error"} :
                   LET r == [LoggedH(req[p], "query", o) EXCEPT
                                !.filter = FilterConditions(filter, req[p].schema, req[p].upd)]
                   IN  Set(p, IF o = "error" THEN Abort(r)
                              ELSE IF QueryFinds(filter, r.upd)
                              THEN [r EXCEPT !.pc = "done", !.resp = Json(200, TRUE)]
                              ELSE [r EXCEPT !.pc = "create"])
    /\ UNCHANGED <<env, db, pages, sessions>>

\* the state block pages.create writes with the page: the polling tool lists the
\* uploads in it when it has files and no Notion token
PageState(r) ==
    [attachments |-> r.files,
     uploads |-> IF r.kind = "poll" /\ ~r.notionToken
                 THEN [k \in 1..Len(r.files) |-> TokenMissingState(r.files[k])]
                 ELSE <<>>]

NewPage(p, r) ==
    [props |-> PageProps(r.schema, r.upd), by |-> p, bi |-> r.bi, update |-> r.upd,
     state |-> PageState(r), children |-> <<>>]

\* the row exists in Notion and the code holds its id
PageCreated(r, id) ==
    LET r1 == [r EXCEPT !.pageId = id]
    IN  IF Len(r.files) = 0 THEN AfterBlocks(r1)
        ELSE IF r.kind = "poll" /\ ~r.notionToken
        THEN [r1 EXCEPT !.uploadStates = [k \in 1..Len(r.files) |-> TokenMissingState(r.files[k])],
                        !.pc = "ledger"]
        ELSE [r1 EXCEPT !.i = 1, !.pc = "getFile"]

\* notion.pages.create.  no_id: the row is created and the answer carries no id,
\* which the webhook asserts
CreatePage ==
  \E p \in DOMAIN req :
    /\ req[p].pc = "create"
    /\ \E o \in (IF req[p].kind = "webhook" THEN {"ok", "error", "no_id"} ELSE {"ok", "error"}) :
        LET r == LoggedH(req[p], "createPage", o)
        IN  /\ pages' = IF o = "error" THEN pages ELSE Append(pages, NewPage(p, r))
            /\ Set(p, IF o = "ok" THEN PageCreated(r, Len(pages) + 1) ELSE Abort(r))
    /\ UNCHANGED <<env, db, sessions>>

AppendChildren(id, blocks) == pages' = [pages EXCEPT ![id].children = @ \o blocks]

\* appendBlocksViaClient(page.id, [the ledger block])
AppendLedger ==
  \E p \in DOMAIN req :
    /\ req[p].pc = "ledger"
    /\ \E o \in {"ok", "error"} :
        LET r == LoggedH(req[p], "appendLedger", o)
        IN  IF o = "error" THEN Set(p, Abort(r)) /\ UNCHANGED pages
            ELSE /\ AppendChildren(r.pageId, <<LedgerBlock(r.uploadStates)>>)
                 /\ Set(p, IF Len(r.uploadedBlocks) > 0 THEN [r EXCEPT !.pc = "blocks"]
                           ELSE AfterBlocks(r))
    /\ UNCHANGED <<env, db, sessions>>

\* seeded fault: the failed append of the attachment blocks is thrown on
BlocksAppendFailed_Propagate(r) == Abort(r)

\* catch (err) of the append of the attachment blocks: on to the error note
\* seeded fault: a refused append of the attachment blocks is tried again
BlocksAppendFailed_Retry(r) == [r EXCEPT !.pc = "blocks"]

BlocksAppendFailed(r) == [r EXCEPT !.pc = "fallback"]

\* the append of the attachment blocks, inside its own try
AppendBlocks ==
  \E p \in DOMAIN req :
    /\ req[p].pc = "blocks"
    /\ \E o \in {"ok", "error"} :
        LET r == LoggedH(req[p], "appendBlocks", o)
        IN  IF o = "error" THEN Set(p, BlocksAppendFailed(r)) /\ UNCHANGED pages
            ELSE /\ AppendChildren(r.pageId, r.uploadedBlocks)
                 /\ Set(p, AfterBlocks(r))
    /\ UNCHANGED <<env, db, sessions>>

\* the catch of that try: the append of the error note
AppendFallback ==
  \E p \in DOMAIN req :
    /\ req[p].pc = "fallback"
    /\ \E o \in {"ok", "error"} :
        LET r == LoggedH(req[p], "appendFallback", o)
        IN  IF o = "error" THEN Set(p, Abort(r)) /\ UNCHANGED pages
            ELSE /\ AppendChildren(r.pageId, <<ErrorNoteBlock>>)
                 /\ Set(p, AfterBlocks(r))
    /\ UNCHANGED <<env, db, sessions>>

\* setMessageReaction and the final res.json({ ok: true }).  fetch resolves on an
\* HTTP error status (not_ok) and rejects on a transport error (throws)
Reaction ==
  \E p \in DOMAIN req :
    /\ req[p].pc = "reaction"
    /\ IF ~env.telegramToken
       THEN Set(p, [req[p] EXCEPT !.pc = "done", !.resp = Json(200, TRUE)])
       ELSE \E o \in {"ok", "not_ok", "throws"} :
               LET r == LoggedH(req[p], "reaction", o)
               IN  Set(p, IF o = "throws" THEN Abort(r)
                          ELSE [r EXCEPT !.pc = "done", !.resp = Json(200, TRUE)])
    /\ UNCHANGED <<env, db, pages, sessions>>

\* Math.min(Math.max(input.limit ?? 50, 1), 100)
ClampLimit(limit) == Min2(Max2(IF limit = NoNumber THEN 50 ELSE limit, 1), 100)

\* execute(input) up to its first await; getBotToken throws without a bot token
PollEntry(Offsets, Limits) ==
  \E p \in DOMAIN req, offset \in Offsets, limit \in Limits :
    /\ req[p].kind = "idle"
    /\ Started(p)
    /\ LET base == [IdleReq EXCEPT !.kind = "poll", !.after = Finished, !.offset = offset,
                                   !.limit = ClampLimit(limit),
                                   !.notionToken = env.notionToken]
       IN  Set(p, IF env.telegramToken THEN [base EXCEPT !.pc = "pollSchema"] ELSE Abort(base))
    /\ UNCHANGED <<env, db, pages, sessions>>

\* notionClient.databases.retrieve and the property lookups
PollRetrieveDb ==
  \E p \in DOMAIN req :
    /\ req[p].pc = "pollSchema"
    /\ \E o \in {"ok", "error"} :
        LET r == LoggedH(req[p], "schema", o)
        IN  Set(p, IF o = "ok"
                   THEN [r EXCEPT !.schema = resolveTelegramNotionSchema(db), !.pc = "getUpdates"]
                   ELSE Abort(r))
    /\ UNCHANGED <<env, db, pages, sessions>>

\* Telegram answers getUpdates with at most limit updates, none below the offset,
\* in the order of their update_id
AnswersGetUpdates(batch, offset, limit) ==
    /\ Len(batch) <= limit
    /\ \A k \in 1..Len(batch) : offset = NoNumber \/ batch[k].update_id >= offset
    /\ \A j, k \in 1..Len(batch) : j < k => batch[j].update_id < batch[k].update_id

\* telegramApi(token, "getUpdates", ...) and the start of the loop
PollGetUpdates(Batches) ==
  \E p \in DOMAIN req :
    /\ req[p].pc = "getUpdates"
    /\ \/ Set(p, Abort(LoggedH(req[p], "getUpdates", "error")))
       \/ \E batch \in Batches :
            /\ AnswersGetUpdates(batch, req[p].offset, req[p].limit)
            /\ Set(p, PollAdvance([LoggedH(req[p], "getUpdates", "ok") EXCEPT !.batch = batch]))
    /\ UNCHANGED <<env, db, pages, sessions>>

(***************************************************************************)
(* The inputs of the model.                                                *)
(***************************************************************************)
Secret == <<1, 2>>

U_text == Update(1, Msg(100, 5, {}, <<>>), NoMsg, NoMsg)
U_doc == Update(2, Msg(100, 6, {"document"}, <<>>), NoMsg, NoMsg)
U_two == Update(3, Msg(100, 7, {"voice"}, <<"p_small", "p_large">>), NoMsg, NoMsg)
U_edit == Update(4, NoMsg, NoMsg, Msg(100, 5, {}, <<>>))
U_post == Update(5, NoMsg, Msg(200, 6, {"video"}, <<>>), NoMsg)
U_none == Update(6, NoMsg, NoMsg, NoMsg)
U_early == Update(0, NoMsg, NoMsg, NoMsg)
U_nochat == Update(7, [Msg(100, 8, {"document"}, <<>>) EXCEPT !.hasChat = FALSE], NoMsg, NoMsg)
U_nomid ==
    Update(8, [Msg(100, 8, {}, <<>>) EXCEPT !.hasMessageId = FALSE], U_doc.message, NoMsg)
U_noid == [U_doc EXCEPT !.hasUpdateId = FALSE]

Post(header, form, update) ==
    [method |-> "POST", header |-> header, body |-> [form |-> form, update |-> update]]

\* what Telegram delivers: a POST with the update as a parsed JSON object
Deliveries(Updates) == {Post(NoHeader, "object", u) : u \in Updates}

Headers ==
    {NoHeader, [kind |-> "array_other", val |-> <<>>]}
    \cup {[kind |-> "string", val |-> v] : v \in {<<>>, Secret, <<1, 3>>, <<1, 2, 0>>, <<1>>}}
    \cup {[kind |-> "array", val |-> v] : v \in {Secret, <<2>>}}

Bodies ==
    {[form |-> f, update |-> EmptyUpdate] : f \in {"absent", "text_badjson", "text_null"}}
    \cup {[form |-> "text_object", update |-> U_text]}
    \cup {[form |-> "object", update |-> u] :
             u \in {U_doc, U_none, U_nochat, U_nomid, U_noid, U_edit}}

\* any HTTP request
Requests ==
    {[method |-> m, header |-> h, body |-> b] : m \in {"POST", "GET"}, h \in Headers, b \in Bodies}

PollBatches ==
    {<<>>, <<U_doc>>, <<U_text, U_doc>>, <<U_doc, U_none>>, <<U_early, U_two>>}

Flag(v) == [set |-> TRUE, val |-> v]
NoFlag == [set |-> FALSE, val |-> ""]
Num(n) == [nan |-> FALSE, n |-> n, half |-> FALSE]
NaN == [nan |-> TRUE, n |-> 0, half |-> FALSE]

\* TELEGRAM_NOTION_MAX_FILE_BYTES: unset, 40 MiB + 1, -1, 0.5
MaxBytesValues ==
    {NaN, Num(2 * NOTION_SINGLE_PART_UPLOAD_BYTES + 1), Num(0 - 1),
     [nan |-> FALSE, n |-> 0, half |-> TRUE]}

Env(requireSecret, secret, telegramToken, notionToken, maxBytes) ==
    [requireSecret |-> requireSecret, secret |-> secret, telegramToken |-> telegramToken,
     notionToken |-> notionToken, maxBytes |-> maxBytes]

NoSecret == [set |-> FALSE, val |-> <<>>]

Db_none == {Prop("Name", "title")}
Db_update == {Prop("Name", "title"), Prop("update-id", "number")}
Db_chat_message == {Prop("Chat ID", "number"), Prop("Message ID", "number")}
Db_all ==
    {Prop("Telegram Update ID", "number"), Prop("chat_id", "number"),
     Prop("Message ID", "number")}

(***************************************************************************)
(* Spec: one webhook delivery or one polling run, with every outcome of    *)
(* every outbound call.                                                    *)
(***************************************************************************)
Init ==
    /\ env \in {Env(NoFlag, NoSecret, TRUE, nt, mb) : nt \in BOOLEAN, mb \in MaxBytesValues}
    /\ db \in {Db_none, Db_all}
    /\ pages = <<>>
    /\ sessions = <<>>
    /\ req = [p \in 1..MaxRuns |-> IdleReq]

\* the steps after the entry of a delivery or of a polling run
WebhookSteps ==
    \/ FetchSchema \/ DedupeCheck \/ CreatePage
    \/ GetFile \/ Download \/ SizeCheck \/ CreateUpload \/ SendPart \/ CompleteUpload
    \/ AppendLedger \/ AppendBlocks \/ AppendFallback \/ Reaction

Steps == WebhookSteps \/ PollRetrieveDb \/ PollGetUpdates(PollBatches)

\* the steps of a run of the polling tool
PollSteps ==
    \/ CreatePage
    \/ GetFile \/ Download \/ SizeCheck \/ CreateUpload \/ SendPart \/ CompleteUpload
    \/ AppendLedger \/ AppendBlocks \/ AppendFallback
    \/ PollRetrieveDb

Next ==
    \/ HandlerEntry(Deliveries({U_text, U_doc, U_two, U_post}))
    \/ PollEntry({NoNumber, 2}, {NoNumber, 0})
    \/ Steps

Spec == Init /\ [][Next]_vars

(***************************************************************************)
(* SpecGate: one webhook request of any shape against any configuration of *)
(* the secret check and the tokens.                                        *)
(***************************************************************************)
InitGate ==
    /\ env \in {Env(f, sec, tt, nt, NaN) :
                    f \in {NoFlag, Flag(" True "), Flag("ON"), Flag("no")},
                    sec \in {NoSecret, [set |-> TRUE, val |-> <<>>], [set |-> TRUE, val |-> Secret]},
                    tt \in BOOLEAN, nt \in BOOLEAN}
    /\ db = Db_update
    /\ pages = <<>>
    /\ sessions = <<>>
    /\ req = [p \in 1..MaxRuns |-> IdleReq]

NextGate == HandlerEntry(Requests) \/ WebhookSteps

SpecGate == InitGate /\ [][NextGate]_vars

(***************************************************************************)
(* SpecMulti: several webhook deliveries, overlapping or one after the     *)
(* other, against one database.                                            *)
(***************************************************************************)
InitMulti ==
    /\ env = Env(NoFlag, NoSecret, TRUE, TRUE, Num(NOTION_SINGLE_PART_UPLOAD_BYTES + 1))
    /\ db \in {Db_none, Db_update, Db_chat_message, Db_all}
    /\ pages = <<>>
    /\ sessions = <<>>
    /\ req = [p \in 1..MaxDeliveries |-> IdleReq]

NextMulti == HandlerEntry(Deliveries({U_text, U_doc, U_edit})) \/ WebhookSteps

SpecMulti == InitMulti /\ [][NextMulti]_vars

(***************************************************************************)
(* SpecPoll: runs of the polling tool, one after the other or overlapping, *)
(* each with an offset of the caller's choice.                             *)
(***************************************************************************)
PollOffsets == {NoNumber, 2, 3}
RerunBatches == {<<>>, <<U_text>>, <<U_doc>>, <<U_text, U_doc>>, <<U_early, U_text, U_none>>}

InitPoll ==
    /\ env = Env(NoFlag, NoSecret, TRUE, TRUE, Num(NOTION_SINGLE_PART_UPLOAD_BYTES + 1))
    /\ db \in {Db_update, Db_chat_message}
    /\ pages = <<>>
    /\ sessions = <<>>
    /\ req = [p \in 1..MaxPollRuns |-> IdleReq]

NextPoll == PollEntry(PollOffsets, {NoNumber}) \/ PollGetUpdates(RerunBatches) \/ PollSteps

SpecPoll == InitPoll /\ [][NextPoll]_vars

(***************************************************************************)
(* SpecInfer: one webhook delivery of a message with one attachment of any *)
(* kind, with any declared name and MIME type, any file_path and any       *)
(* Content-Type of the download.                                           *)
(***************************************************************************)
\* the attachment objects: every declared name with every declared MIME type
InferAttachments ==
    {[file_id |-> AnyFileId, file_unique_id |-> "u_any", file_size |-> NoNumber,
      file_name |-> n, mime_type |-> m] :
        n \in {UNDEF, "", "report", "Scan.PDF", "notes.gz"},
        m \in {UNDEF, "", "application/pdf", "Image/PNG"}}

U_photo == Update(9, Msg(300, 1, {}, <<AnyFileId>>), NoMsg, NoMsg)

InferUpdates ==
    {Update(9, MsgWith(300, 1, kind, a), NoMsg, NoMsg) :
        kind \in {"document", "video", "audio", "voice", "video_note", "animation", "sticker"},
        a \in InferAttachments}
    \cup {U_photo}

InitInfer ==
    /\ env = Env(NoFlag, NoSecret, TRUE, TRUE, Num(NOTION_SINGLE_PART_UPLOAD_BYTES + 1))
    /\ db = Db_update
    /\ pages = <<>>
    /\ sessions = <<>>
    /\ req = [p \in 1..MaxRuns |-> IdleReq]

NextInfer == HandlerEntry(Deliveries(InferUpdates)) \/ WebhookSteps

SpecInfer == InitInfer /\ [][NextInfer]_vars

(***************************************************************************)
Statuses == {"uploaded", "skipped", "failed"}
UploadPcs == {"getFile", "download", "sizeCheck", "createUpload", "send", "complete"}
NotionUploadOps == {"create", "send", "complete"}

\* the positions in r.calls of the calls made for file k of the update in hand
CallsFor(r, k, ops) ==
    {n \in 1..Len(r.calls) :
        r.calls[n].upd = r.bi /\ r.calls[n].file = k /\ r.calls[n].op \in ops}

\* the attachments a message carries: one per kind present, one for all its photo sizes
ExpectedFileCount(msg) == Cardinality(msg.att) + (IF Len(msg.photo) > 0 THEN 1 ELSE 0)

\* C1: after the attachment handling of a message, in the webhook and in the
\* polling tool, the upload ledger has exactly one entry per file extracted from
\* the message, in extraction order, whatever was uploaded, skipped or failed;
\* so has every ledger block written to a page
C1_LedgerComplete ==
    /\ \A p \in DOMAIN req :
          req[p].pc \in {"ledger", "blocks", "fallback"} =>
              LET msg == MessageOf(req[p].upd)
                  files == extractFiles(msg, 1)
                  us == req[p].uploadStates
              IN  /\ Len(us) = ExpectedFileCount(msg)
                  /\ Len(us) = Len(files)
                  /\ \A j \in 1..Len(us) : us[j].file_id = files[j].file_id
    /\ \A k \in 1..Len(pages) : \A b \in 1..Len(pages[k].children) :
          pages[k].children[b].type = "ledger" =>
              LET msg == MessageOf(pages[k].update)
                  files == extractFiles(msg, 1)
                  us == pages[k].children[b].uploads
              IN  /\ Len(us) = ExpectedFileCount(msg)
                  /\ Len(us) = Len(files)
                  /\ \A j \in 1..Len(us) : us[j].file_id = files[j].file_id

\* a page whose ledger lists two files, one that failed and one that was uploaded
C1_Witness ==
    \E k \in 1..Len(pages) : \E b \in 1..Len(pages[k].children) :
        LET us == pages[k].children[b].uploads
        IN  /\ pages[k].children[b].type = "ledger"
            /\ Len(us) = 2
            /\ us[1].status = "failed"
            /\ us[2].status = "uploaded"

\* C2: the processing of one file yields exactly one upload state, for that file,
\* whose status is one of uploaded, skipped, failed, whatever step fails
C2_OneStatePerFile ==
    \A p \in DOMAIN req :
        LET r == req[p]
        IN  r.i >= 1 =>
              /\ r.i <= Len(r.files) + 1
              /\ (r.pc \in UploadPcs => r.i <= Len(r.files))
              /\ Len(r.uploadStates) = r.i - 1
              /\ \A k \in 1..Len(r.uploadStates) :
                    /\ r.uploadStates[k].status \in Statuses
                    /\ r.uploadStates[k].file_id = r.files[k].file_id
                    /\ Cardinality(CallsFor(r, k, {"getFile"})) = 1

\* two files were processed: the first was skipped, the second failed
C2_Witness ==
    \E p \in DOMAIN req :
        /\ Len(req[p].uploadStates) = 2
        /\ req[p].uploadStates[1].status = "skipped"
        /\ req[p].uploadStates[2].status = "failed"
        /\ CallsFor(req[p], 2, {"complete"}) # {}

\* the number of parts of a buffer: the least n >= 1 with n parts covering it
ExpectedParts(size) ==
    IF size <= NOTION_SINGLE_PART_UPLOAD_BYTES THEN 1
    ELSE CHOOSE n \in 2..(size \div NOTION_SINGLE_PART_UPLOAD_BYTES + 1) :
            /\ (n - 1) * NOTION_SINGLE_PART_UPLOAD_BYTES < size
            /\ size <= n * NOTION_SINGLE_PART_UPLOAD_BYTES

\* C4: a successful upload of a buffer of S bytes makes exactly
\* N = max(1, ceil(S / 20 MiB)) send calls, and when N > 1 exactly one complete
\* call after them; a buffer of at most 20 MiB is sent in one part with no
\* complete call
C4_PartCount ==
    \A p \in DOMAIN req : \A k \in 1..Len(req[p].uploadStates) :
        LET r == req[p]
            st == r.uploadStates[k]
            N == ExpectedParts(st.size_bytes)
            sends == CallsFor(r, k, {"send"})
            completes == CallsFor(r, k, {"complete"})
        IN  st.status = "uploaded" =>
              /\ Cardinality(sends) = N
              /\ Cardinality(completes) = (IF N > 1 THEN 1 ELSE 0)
              /\ \A c \in completes : \A n \in sends : n < c
              /\ \A n \in sends \cup completes : r.calls[n].res = "ok"
              /\ N = 1 => \A n \in sends : r.calls[n].part = NoNumber
              /\ N > 1 => {r.calls[n].part : n \in sends} = 1..N
              /\ sessions[st.notion_file_upload_id].completed = (N > 1)
              /\ Len(sessions[st.notion_file_upload_id].sent) = N

\* an upload of 20 MiB + 1 bytes went through: two parts and the complete call
C4_Witness ==
    \E p \in DOMAIN req : \E k \in 1..Len(req[p].uploadStates) :
        /\ req[p].uploadStates[k].status = "uploaded"
        /\ req[p].uploadStates[k].size_bytes = NOTION_SINGLE_PART_UPLOAD_BYTES + 1
        /\ Cardinality(CallsFor(req[p], k, {"complete"})) = 1

\* the byte length of the body downloaded for file k, NoNumber when none was
DownloadedSize(r, k) ==
    LET ds == {n \in CallsFor(r, k, {"download"}) : r.calls[n].res = "ok"}
    IN  IF ds = {} THEN NoNumber ELSE r.calls[CHOOSE n \in ds : TRUE].part

\* the statement of C5 as written: a downloaded file of exactly the configured
\* maximum ends with status uploaded
C5_AtMaxUploaded ==
    \A p \in DOMAIN req : \A k \in 1..Len(req[p].uploadStates) :
        DownloadedSize(req[p], k) = getMaxUploadBytes =>
            req[p].uploadStates[k].status = "uploaded"

\* C5: a downloaded file whose byte length is at most the configured maximum is
\* not skipped: an upload is created for it, and it ends uploaded unless a Notion
\* file-upload call for it fails, then failed.  One of more bytes ends skipped
\* with a reason that cites the maximum, no Notion create, send or complete call
\* is made for it and no block is produced
C5_SizeBoundary ==
    \A p \in DOMAIN req : \A k \in 1..Len(req[p].uploadStates) :
        LET r == req[p]
            st == r.uploadStates[k]
            size == DownloadedSize(r, k)
            notion == CallsFor(r, k, NotionUploadOps)
        IN  /\ (size # NoNumber /\ size <= getMaxUploadBytes) =>
                /\ st.status # "skipped"
                /\ CallsFor(r, k, {"create"}) # {}
                /\ st.status = "uploaded" <=> \A n \in notion : r.calls[n].res = "ok"
                /\ st.status = "failed" <=> \E n \in notion : r.calls[n].res # "ok"
            /\ (size # NoNumber /\ size > getMaxUploadBytes) =>
                /\ st.status = "skipped"
                /\ st.size_bytes = size
                /\ st.reason = Reason("File exceeds TELEGRAM_NOTION_MAX_FILE_BYTES",
                                      getMaxUploadBytes)
                /\ notion = {}
                /\ \A n \in 1..Len(sessions) : ~(sessions[n].by = p /\ sessions[n].file = k)
                /\ st.notion_block_type = UNDEF
                /\ Len(r.uploadedBlocks) =
                     Cardinality({j \in 1..Len(r.uploadStates) :
                                     r.uploadStates[j].status = "uploaded"})

\* of two files, the first had one byte more than the maximum and was skipped,
\* the second had exactly the maximum and was uploaded
C5_Witness ==
    \E p \in DOMAIN req :
        /\ Len(req[p].uploadStates) = 2
        /\ DownloadedSize(req[p], 1) = getMaxUploadBytes + 1
        /\ req[p].uploadStates[1].status = "skipped"
        /\ DownloadedSize(req[p], 2) = getMaxUploadBytes
        /\ req[p].uploadStates[2].status = "uploaded"

(***************************************************************************)
(* Properties of the error handling.                                       *)
(***************************************************************************)
FileOps == {"getFile", "download", "create", "send", "complete"}
ErrorResponses == {Json(500, FALSE), Thrown}
LastCall(r) == r.calls[Len(r.calls)]

\* C8: the per-file pipeline never raises to its caller: a failed step for
\* attachment k (getFile, download, create, send, complete) is recorded as that
\* file's failed entry and as nothing else, the attachments after k are still
\* processed, and the page created for the message stays
C8_PerFileExceptionSafe ==
    \A p \in DOMAIN req :
        LET r == req[p]
            failedSteps == {n \in 1..Len(r.calls) :
                               /\ r.calls[n].upd = r.bi
                               /\ r.calls[n].op \in FileOps
                               /\ r.calls[n].res \notin {"ok", "no_id"}}
        IN  /\ \A n \in failedSteps :
                  LET k == r.calls[n].file
                  IN  /\ r.i > k
                      /\ k <= Len(r.uploadStates)
                      /\ r.uploadStates[k].status = "failed"
                      /\ r.uploadStates[k].file_id = r.files[k].file_id
                      /\ \A m \in CallsFor(r, k, FileOps) : m <= n
                      /\ r.pageId >= 1 /\ r.pageId <= Len(pages) /\ pages[r.pageId].by = p
            /\ (r.pc = "done" /\ r.resp \in ErrorResponses /\ Len(r.calls) > 0) =>
                  LastCall(r).op \notin FileOps
            /\ (r.i >= 1 /\ r.pc \notin UploadPcs) =>
                  /\ Len(r.uploadStates) = Len(r.files)
                  /\ \A j \in 1..Len(r.files) : CallsFor(r, j, {"getFile"}) # {}

\* the download of the first attachment threw, the second attachment was uploaded
\* all the same, and the ledger of both is on the page
C8_Witness ==
    \E p \in DOMAIN req :
        LET r == req[p]
        IN  /\ Len(r.uploadStates) = 2
            /\ \E n \in CallsFor(r, 1, {"download"}) : r.calls[n].res = "throws"
            /\ r.uploadStates[1].status = "failed"
            /\ r.uploadStates[2].status = "uploaded"
            /\ r.pageId >= 1
            /\ \E b \in 1..Len(pages[r.pageId].children) :
                  pages[r.pageId].children[b].type = "ledger"

\* pages.create answered with the new row
PageCreatedBy(p) ==
    \E n \in 1..Len(req[p].calls) :
        req[p].calls[n].op = "createPage" /\ req[p].calls[n].res = "ok"

\* C9: once pages.create has succeeded in the webhook handler, the request is
\* answered 200 {ok:true} whatever fails afterwards; no failure after the page
\* creation gives an HTTP error status
C9_OkAfterPageCreated ==
    \A p \in DOMAIN req :
        (req[p].kind = "webhook" /\ req[p].pc = "done" /\ PageCreatedBy(p)) =>
            req[p].resp = Json(200, TRUE)

\* C10: a failure before the page creation in the webhook handler (schema fetch
\* error, no usable property map, dedupe query error, pages.create error) ends
\* the request with HTTP 500, and no page is created, no file is downloaded or
\* uploaded and no reaction is sent
C10_FailureBeforePage ==
    \A p \in DOMAIN req :
        LET r == req[p]
            early == {n \in 1..Len(r.calls) :
                         /\ r.calls[n].op \in {"schema", "query", "createPage"}
                         /\ r.calls[n].res \in {"error", "no_properties"}}
        IN  (r.kind = "webhook" /\ early # {}) =>
              /\ r.pc = "done"
              /\ r.resp = Json(500, FALSE)
              /\ early = {Len(r.calls)}
              /\ \A k \in 1..Len(pages) : pages[k].by # p
              /\ \A n \in 1..Len(r.calls) : r.calls[n].op \notin FileOps \cup {"reaction"}
              /\ \A n \in 1..Len(sessions) : sessions[n].by # p
              /\ r.uploadStates = <<>>

\* the schema and the dedupe query were answered, pages.create failed: 500
C10_Witness ==
    \E p \in DOMAIN req :
        /\ req[p].kind = "webhook"
        /\ Len(req[p].calls) = 3
        /\ req[p].calls[2] = Call(0, "query", 0, 0, "ok")
        /\ req[p].calls[3] = Call(0, "createPage", 0, 0, "error")
        /\ req[p].resp = Json(500, FALSE)
        /\ Len(req[p].files) > 0

(***************************************************************************)
(* Properties of the webhook's entry checks.                               *)
(***************************************************************************)
\* TELEGRAM_WEBHOOK_REQUIRE_SECRET_TOKEN is one of the spellings of true
EnforcementEnabled == env.requireSecret.set /\ env.requireSecret.val \in {" True ", "ON"}
SecretSet == env.secret.set /\ Len(env.secret.val) > 0
\* the request carries the header, as one string or as the first of several,
\* and its text is the configured secret
HeaderIsSecret(h) == h.kind \in {"string", "array"} /\ h.val = env.secret.val

\* C6: for the POST requests, with enforcement enabled and a secret configured
\* a request passes the secret check if and only if its
\* x-telegram-bot-api-secret-token header equals the configured secret, and a
\* wrong or missing header is answered 401; with enforcement disabled no request
\* is answered 401, whatever its header
C6_SecretCheck ==
    \A p \in DOMAIN req :
        LET r == req[p]
        IN  (r.kind = "webhook" /\ r.in.method = "POST") =>
              /\ (EnforcementEnabled /\ SecretSet) =>
                    /\ HeaderIsSecret(r.in.header) <=> r.resp # Json(401, FALSE)
                    /\ HeaderIsSecret(r.in.header) <=> r.resp.status # 401
                    /\ ~HeaderIsSecret(r.in.header) =>
                          r.pc = "done" /\ r.calls = <<>> /\ \A k \in 1..Len(pages) : pages[k].by # p
              /\ ~EnforcementEnabled => r.resp.status # 401

\* enforcement is on, the header carries the secret, and the update was ingested
C6_Witness ==
    \E p \in DOMAIN req :
        /\ EnforcementEnabled /\ SecretSet
        /\ HeaderIsSecret(req[p].in.header)
        /\ req[p].pc = "done"
        /\ req[p].resp = Json(200, TRUE)
        /\ \E k \in 1..Len(pages) : pages[k].by = p

\* the body carries a numeric update_id
HasNumericUpdateId(body) == body.form \in {"object", "text_object"} /\ body.update.hasUpdateId

\* C7: the webhook answers by a fixed precedence: non-POST -> 404; else
\* enforcement enabled without a configured secret -> 500; else secret mismatch
\* -> 401; else a missing bot or Notion token -> 500; else update_id not a number
\* -> 400; else no message, channel_post or edited_message, or a message without
\* chat or message_id -> 200 {ok:true} with no page created
C7_Precedence ==
    \A p \in DOMAIN req :
        LET r == req[p]
            in == r.in
            u == in.body.update
            m == IF u.message.present THEN u.message
                 ELSE IF u.channel_post.present THEN u.channel_post ELSE u.edited_message
        IN  r.kind = "webhook" =>
              IF in.method # "POST" THEN r.resp = NotFound
              ELSE IF EnforcementEnabled /\ ~SecretSet THEN r.resp = Json(500, FALSE)
              ELSE IF EnforcementEnabled /\ ~HeaderIsSecret(in.header)
                   THEN r.resp = Json(401, FALSE)
              ELSE IF ~env.telegramToken \/ ~env.notionToken THEN r.resp = Json(500, FALSE)
              ELSE IF ~HasNumericUpdateId(in.body) THEN r.resp = Json(400, FALSE)
              ELSE IF ~m.present \/ ~m.hasChat \/ ~m.hasMessageId
                   THEN /\ r.resp = Json(200, TRUE)
                        /\ r.calls = <<>>
                        /\ \A k \in 1..Len(pages) : pages[k].by # p
              ELSE r.resp.status \notin {404, 401, 400}

(***************************************************************************)
(* Properties of the deliveries of one update.                             *)
(***************************************************************************)
\* p is a delivery of the update of q that started after q had finished, q has
\* created its page, and the schema exposes an Update-ID number property
Redelivery(p, q) ==
    /\ req[p].kind = "webhook" /\ req[q].kind = "webhook"
    /\ q \in req[p].after
    /\ \E k \in 1..Len(pages) : pages[k].by = q
    /\ Len(req[p].calls) > 0
    /\ req[p].upd.hasUpdateId /\ req[q].upd.hasUpdateId
    /\ req[p].upd.update_id = req[q].upd.update_id
    /\ \E prop \in db : prop.type = "number" /\ prop.name \in {"update-id", "Telegram Update ID"}

\* what a later delivery never does: create a page, download, upload
NoPageNoFiles(p) ==
    /\ \A k \in 1..Len(pages) : pages[k].by # p
    /\ \A n \in 1..Len(req[p].calls) : req[p].calls[n].op \notin FileOps \cup {"createPage"}
    /\ \A n \in 1..Len(sessions) : sessions[n].by # p

\* the statement of C3 as written: the later delivery is answered 200 {ok:true}
C3_RedeliveryAnswered200 ==
    \A p, q \in DOMAIN req :
        (Redelivery(p, q) /\ req[p].pc = "done") =>
            NoPageNoFiles(p) /\ req[p].resp = Json(200, TRUE)

\* C3: if the schema exposes an Update-ID number property and a delivery of
\* update u has finished with its page created, a delivery of the same update_id
\* that starts afterwards creates no page, so the pages for u stay as they were,
\* and starts no download or upload; it is answered 200 {ok:true} when its
\* schema fetch and its dedupe query are answered, and 500 when one of them fails
C3_RedeliveryIdempotent ==
    \A p, q \in DOMAIN req :
        Redelivery(p, q) =>
            /\ NoPageNoFiles(p)
            /\ req[p].pc \in {"dedupe", "done"}
            /\ req[p].pc = "done" =>
                  IF LastCall(req[p]).res = "ok"
                  THEN LastCall(req[p]).op = "query" /\ req[p].resp = Json(200, TRUE)
                  ELSE /\ LastCall(req[p]).op \in {"schema", "query"}
                       /\ req[p].resp = Json(500, FALSE)

\* the update with a document was delivered again after its page was created:
\* the query found the row and the delivery was answered 200
C3_Witness ==
    \E p, q \in DOMAIN req :
        /\ Redelivery(p, q)
        /\ Len(req[p].files) > 0
        /\ req[p].pc = "done"
        /\ LastCall(req[p]) = Call(0, "query", 0, 0, "ok")
        /\ req[p].resp = Json(200, TRUE)
        /\ Cardinality({k \in 1..Len(pages) :
                           pages[k].update.update_id = req[p].upd.update_id}) = 1

(***************************************************************************)
(* Properties of the blocks appended to a page.                            *)
(***************************************************************************)
BlocksOf(k, type) == {b \in 1..Len(pages[k].children) : pages[k].children[b].type = type}
\* page k was created for a message with attachments and the code got its id
PageWithFiles(k) ==
    /\ ExpectedFileCount(MessageOf(pages[k].update)) > 0
    /\ PageCreatedBy(pages[k].by)
\* page k is the last page its request created
LastPageOf(k) == \A j \in 1..Len(pages) : pages[j].by = pages[k].by => j <= k
\* the block is a ledger with one state per attachment of the page's message
FullLedger(k, b) ==
    LET files == extractFiles(MessageOf(pages[k].update), 1)
        us == pages[k].children[b].uploads
    IN  /\ Len(us) = ExpectedFileCount(MessageOf(pages[k].update))
        /\ \A j \in 1..Len(us) : us[j].file_id = files[j].file_id /\ us[j].status \in Statuses

PageFor(p, bi) == CHOOSE k \in 1..Len(pages) : pages[k].by = p /\ pages[k].bi = bi
FailedBlockAppends(r) ==
    {n \in 1..Len(r.calls) : r.calls[n].op = "appendBlocks" /\ r.calls[n].res = "error"}
\* the page keeps its ledger block, first of its children, and has no attachment block
LedgerKept(k) ==
    /\ BlocksOf(k, "ledger") = {1}
    /\ FullLedger(k, 1)
    /\ BlocksOf(k, "ledger") \cup BlocksOf(k, "note") = 1..Len(pages[k].children)

UpdateIdProps == {pr \in db : pr.type = "number" /\ pr.name \in {"update-id", "Telegram Update ID"}}
ChatIdProps == {pr \in db : pr.type = "number" /\ pr.name \in {"Chat ID", "chat_id"}}
MessageIdProps == {pr \in db : pr.type = "number" /\ pr.name = "Message ID"}
Queries(r) == {n \in 1..Len(r.calls) : r.calls[n].op = "query"}
\* the delivery has got the schema and is past hasExistingTelegramPage
PastDedupe(r) ==
    /\ r.kind = "webhook"
    /\ Len(r.calls) > 0 /\ r.calls[1] = Call(0, "schema", 0, 0, "ok")
    /\ r.pc # "dedupe"

\* C13: the webhook's dedupe query is chosen by the schema: with an Update-ID
\* property (the update has an update_id) the one query filters on that value
\* only; else with Chat-ID and Message-ID properties it filters on both values;
\* else no query is made and the handler goes on to create the page, whatever
\* pages exist
C13_FilterChoice ==
    \A p \in DOMAIN req :
        LET r == req[p]
            m == MessageOf(r.upd)
        IN  PastDedupe(r) =>
              IF UpdateIdProps # {} /\ r.upd.hasUpdateId
              THEN /\ Cardinality(Queries(r)) = 1
                   /\ r.filter = {[property |-> pr.name, equals |-> r.upd.update_id] :
                                     pr \in UpdateIdProps}
              ELSE IF ChatIdProps # {} /\ MessageIdProps # {}
              THEN /\ Cardinality(Queries(r)) = 1
                   /\ r.filter =
                        {[property |-> pr.name, equals |-> m.chat_id] : pr \in ChatIdProps}
                        \cup {[property |-> pr.name, equals |-> m.message_id] :
                                 pr \in MessageIdProps}
              ELSE /\ Queries(r) = {}
                   /\ r.filter = {}
                   /\ Len(r.calls) = 1 => r.pc = "create"
                   /\ Len(r.calls) > 1 => r.calls[2].op = "createPage"

\* no id property in the schema: the update is delivered a second time after its
\* page was created, no query is made and a second page is created
C13_Witness ==
    \E p, q \in DOMAIN req :
        /\ q \in req[p].after
        /\ PastDedupe(req[p])
        /\ Queries(req[p]) = {}
        /\ req[p].upd = req[q].upd
        /\ \E j, k \in 1..Len(pages) : pages[j].by = q /\ pages[k].by = p

\* pages j and k are two pages, created by two webhook deliveries
TwoPages(j, k) ==
    /\ j # k
    /\ pages[j].by # pages[k].by
    /\ req[pages[j].by].kind = "webhook" /\ req[pages[k].by].kind = "webhook"
\* neither of the two deliveries started after the other had finished
Overlapping(p, q) == p \notin req[q].after /\ q \notin req[p].after
SameUpdate(j, k) == pages[j].update.update_id = pages[k].update.update_id
SameMessage(j, k) ==
    /\ MessageOf(pages[j].update).chat_id = MessageOf(pages[k].update).chat_id
    /\ MessageOf(pages[j].update).message_id = MessageOf(pages[k].update).message_id

\* C14: the existence query and the page creation are two steps: with the
\* Update-ID property in the schema, two pages for one update_id exist only
\* when their two deliveries overlapped and each ran its query before the other
\* had created its page -- and such a state is reachable (C14_Witness)
C14_DuplicateOnlyByRace ==
    \A j, k \in 1..Len(pages) :
        (TwoPages(j, k) /\ SameUpdate(j, k) /\ UpdateIdProps # {}) =>
            /\ Overlapping(pages[j].by, pages[k].by)
            /\ \A p \in {pages[j].by, pages[k].by} :
                  \E n \in Queries(req[p]) :
                      /\ req[p].calls[n].res = "ok"
                      /\ req[p].calls[n + 1].op = "createPage"

\* the Update-ID property exists, two deliveries of one update have both run
\* their query and both created a page: two pages for one update_id
C14_Witness ==
    \E j, k \in 1..Len(pages) :
        /\ TwoPages(j, k)
        /\ SameUpdate(j, k)
        /\ UpdateIdProps # {}
        /\ pages[j].props.update_id = pages[k].props.update_id
        /\ pages[j].props.update_id = pages[j].update.update_id
        /\ \A p \in {pages[j].by, pages[k].by} :
              Cardinality(Queries(req[p])) = 1 /\ req[p].pc = "done"

\* the statement of C15 as written: with Chat-ID and Message-ID properties in the
\* schema, deliveries that do not overlap leave at most one page per
\* (chat_id, message_id)
C15_OnePagePerMessage ==
    \A j, k \in 1..Len(pages) :
        (/\ TwoPages(j, k)
         /\ ~Overlapping(pages[j].by, pages[k].by)
         /\ ChatIdProps # {} /\ MessageIdProps # {}) => ~SameMessage(j, k)

\* C15: across webhook deliveries that do not overlap, at most one page exists
\* per update_id when the schema exposes the Update-ID property, and at most one
\* per (chat_id, message_id) when it exposes the Chat-ID and Message-ID
\* properties and no Update-ID property, whichever update kind carries the message
C15_OnePagePerKey ==
    \A j, k \in 1..Len(pages) :
        (TwoPages(j, k) /\ ~Overlapping(pages[j].by, pages[k].by)) =>
            /\ UpdateIdProps # {} => ~SameUpdate(j, k)
            /\ (UpdateIdProps = {} /\ ChatIdProps # {} /\ MessageIdProps # {}) =>
                  ~SameMessage(j, k)

\* Chat-ID and Message-ID properties only: the message was ingested, its
\* edited_message was delivered afterwards, the query found the row and the
\* delivery was answered 200 with no second page
C15_Witness ==
    \E p, q \in DOMAIN req :
        /\ UpdateIdProps = {} /\ ChatIdProps # {} /\ MessageIdProps # {}
        /\ q \in req[p].after
        /\ UpdateType(req[q].upd) = "message"
        /\ UpdateType(req[p].upd) = "edited_message"
        /\ MessageOf(req[p].upd) = MessageOf(req[q].upd)
        /\ \E k \in 1..Len(pages) : pages[k].by = q
        /\ req[p].pc = "done" /\ req[p].resp = Json(200, TRUE)
        /\ \A k \in 1..Len(pages) : pages[k].by # p

(***************************************************************************)
(* Properties of the polling tool's runs.                                  *)
(***************************************************************************)
PagesBy(p) == {k \in 1..Len(pages) : pages[k].by = p}
Returned(p) == req[p].kind = "poll" /\ req[p].pc = "done" /\ req[p].resp.kind = "returned"
\* run q started after run p had ended
RunAfter(q, p) == req[q].kind = "poll" /\ req[p].kind = "poll" /\ p \in req[q].after

\* C16: polling: a run started again with the offset of a run that has ended
\* creates no second page for an update whose page exists, the schema exposing
\* the Update-ID property or the Chat-ID and Message-ID properties
C16_RerunCreatesNoDuplicate ==
    \A j, k \in 1..Len(pages) :
        (/\ j # k
         /\ RunAfter(pages[k].by, pages[j].by)
         /\ req[pages[k].by].offset = req[pages[j].by].offset
         /\ (UpdateIdProps # {} \/ (ChatIdProps # {} /\ MessageIdProps # {})))
        => ~SameUpdate(j, k)

\* C17: a run of telegramIngestToNotion that returns reports created = the
\* number of pages it created and last_offset = the update_id of the last update
\* it created a page for, plus one (no last_offset when it created none); a run
\* that follows with offset = last_offset is handed none of the updates this run
\* ingested and creates no page for any of them
C17_LastOffset ==
    \A p \in DOMAIN req :
        LET r == req[p]
            mine == PagesBy(p)
            last == CHOOSE k \in mine : \A j \in mine : j <= k
        IN  Returned(p) =>
              /\ r.resp.status = Cardinality(mine)
              /\ Len(r.out) = Cardinality(mine)
              /\ {r.out[n].page_id : n \in 1..Len(r.out)} = mine
              /\ \A n \in 1..Len(r.out) : r.out[n].update_id = pages[r.out[n].page_id].update.update_id
              /\ IF mine = {} THEN r.lastOffset = NoNumber
                 ELSE /\ r.lastOffset = pages[last].update.update_id + 1
                      /\ \A k \in mine : pages[k].update.update_id < r.lastOffset
              /\ \A q \in DOMAIN req :
                    (RunAfter(q, p) /\ mine # {} /\ req[q].offset = r.lastOffset) =>
                        \A k \in mine :
                            /\ \A n \in 1..Len(req[q].batch) :
                                  req[q].batch[n].update_id # pages[k].update.update_id
                            /\ \A j \in PagesBy(q) : ~SameUpdate(j, k)

\* a run ingested update 1 and returned created = 1, last_offset = 2; the run
\* that followed with offset 2 was handed update 2 and ingested it
C17_Witness ==
    \E p, q \in DOMAIN req :
        /\ Returned(p) /\ Returned(q) /\ RunAfter(q, p)
        /\ req[p].resp.status = 1
        /\ req[p].lastOffset = 2
        /\ req[q].offset = 2
        /\ req[q].resp.status = 1
        /\ \E j \in PagesBy(p), k \in PagesBy(q) :
              pages[j].update.update_id = 1 /\ pages[k].update.update_id = 2

TokenMissingReason == Reason("NOTION_API_TOKEN is missing; cannot upload Telegram files", 0)

\* C18: polling with the Notion token absent: the page is created all the same,
\* every attachment gets one ledger entry with status skipped and the
\* token-missing reason, no getFile, download or file-upload call is made and no
\* attachment block is appended
C18_PollWithoutNotionToken ==
    \A p \in DOMAIN req :
        LET r == req[p]
        IN  (r.kind = "poll" /\ ~env.notionToken) =>
              /\ \A n \in 1..Len(r.calls) :
                    r.calls[n].op \notin FileOps \cup {"appendBlocks", "appendFallback"}
              /\ \A n \in 1..Len(sessions) : sessions[n].by # p
              /\ r.uploadedBlocks = <<>>
              /\ (r.pc = "done" /\ r.resp \in ErrorResponses /\ Len(r.calls) > 0) =>
                    LastCall(r).res = "error"
              /\ r.pc = "ledger" =>
                    /\ r.pageId \in PagesBy(p)
                    /\ Len(r.uploadStates) = ExpectedFileCount(MessageOf(r.upd))
                    /\ \A j \in 1..Len(r.uploadStates) :
                          /\ r.uploadStates[j].status = "skipped"
                          /\ r.uploadStates[j].reason = TokenMissingReason
                          /\ r.uploadStates[j].file_id = r.files[j].file_id
              /\ \A k \in PagesBy(p) :
                    /\ BlocksOf(k, "ledger") \cup BlocksOf(k, "note") = 1..Len(pages[k].children)
                    /\ \A b \in BlocksOf(k, "ledger") :
                          /\ FullLedger(k, b)
                          /\ \A j \in 1..Len(pages[k].children[b].uploads) :
                                /\ pages[k].children[b].uploads[j].status = "skipped"
                                /\ pages[k].children[b].uploads[j].reason = TokenMissingReason

\* a polling run without the Notion token has returned: its page for the message
\* with a photo and a voice note carries the ledger of two skipped entries
C18_Witness ==
    \E p \in DOMAIN req :
        /\ Returned(p) /\ ~env.notionToken
        /\ \E k \in PagesBy(p) :
              /\ Len(pages[k].children) = 1
              /\ Len(pages[k].children[1].uploads) = 2
              /\ pages[k].children[1].uploads[2].status = "skipped"
              /\ pages[k].children[1].uploads[2].type = "voice"

\* the first value of a list that is there and not empty
FirstAvailable(values) ==
    values[CHOOSE i \in 1..Len(values) :
              /\ ~Falsy(values[i])
              /\ \A j \in 1..(i - 1) : Falsy(values[j])]

TypeDefaults ==
    [photo |-> "image/jpeg", video |-> "video/mp4", video_note |-> "video/mp4",
     animation |-> "video/mp4", audio |-> "audio/ogg", voice |-> "audio/ogg",
     sticker |-> "image/webp"]

\* the file of request p has been downloaded: its MIME type has been inferred
Inferred(p) == req[p].pc \in {"sizeCheck", "createUpload", "send", "complete"}

\* C19: inferMimeType returns the first available of: the declared mime_type;
\* the Content-Type of the download without its parameters, in lower case; the
\* type for the extension of the declared file name; the type for the extension
\* of the file_path; the default of the Telegram type (photo image/jpeg; video,
\* video_note, animation video/mp4; audio, voice audio/ogg; sticker image/webp);
\* application/octet-stream.  What it returns is never empty
C19_MimeTypeOrder ==
    \A p \in DOMAIN req :
        Inferred(p) =>
            LET r == req[p]
                file == r.files[r.i]
                declared == ~Falsy(file.mime_type)
            IN  /\ r.cur.mimeType =
                     FirstAvailable(<<file.mime_type,
                                      ResponseMime(r.cur.contentType),
                                      mimeFromExtension(extensionFromName(file.file_name)),
                                      mimeFromExtension(extensionFromName(r.cur.filePath)),
                                      IF file.type \in DOMAIN TypeDefaults
                                      THEN TypeDefaults[file.type] ELSE UNDEF,
                                      "application/octet-stream">>)
                /\ ~Falsy(r.cur.mimeType)
                /\ file.mime_type = "Image/PNG" => r.cur.mimeType = "Image/PNG"
                /\ (~declared /\ r.cur.contentType = "Audio/OGG; codecs=opus")
                      => r.cur.mimeType = "audio/ogg"
                /\ (~declared /\ r.cur.contentType = " Text/Plain ")
                      => r.cur.mimeType = "text/plain"
                /\ (~declared /\ r.cur.contentType \in {UNDEF, "; charset=utf-8"})
                      => /\ file.file_name = "Scan.PDF" => r.cur.mimeType = "application/pdf"
                         /\ (file.file_name # "Scan.PDF"
                             /\ r.cur.filePath = "music/track_7.MP3")
                               => r.cur.mimeType = "audio/mpeg"
                         /\ (file.file_name # "Scan.PDF"
                             /\ r.cur.filePath # "music/track_7.MP3"
                             /\ file.file_id = AnyFileId)
                               => r.cur.mimeType =
                                     (IF file.type \in DOMAIN TypeDefaults
                                      THEN TypeDefaults[file.type]
                                      ELSE "application/octet-stream")

\* a sticker named Scan.PDF by its sender came with no declared type, a download
\* without a usable Content-Type and a file_path without extension: the default
\* of the sticker decided
C19_Witness ==
    \E p \in DOMAIN req :
        /\ Inferred(p)
        /\ req[p].files[req[p].i].type = "sticker"
        /\ MessageOf(req[p].upd).given.file_name = "Scan.PDF"
        /\ Falsy(req[p].files[req[p].i].mime_type)
        /\ req[p].cur.contentType = "; charset=utf-8"
        /\ req[p].cur.filePath = "documents/file_1"
        /\ req[p].cur.mimeType = "image/webp"

\* the upload-state entries of files that were uploaded, in the requests and in
\* the ledger blocks
UploadedEntries ==
    UNION {{req[p].uploadStates[j] : j \in 1..Len(req[p].uploadStates)} : p \in DOMAIN req}
    \cup UNION {UNION {{pages[k].children[b].uploads[j] :
                            j \in 1..Len(pages[k].children[b].uploads)} :
                          b \in BlocksOf(k, "ledger")} :
                   k \in 1..Len(pages)}

BlockTypeRules(e) ==
    <<IF startsWith(toLowerCase(e.mime_type), "image/") THEN "image" ELSE UNDEF,
      IF startsWith(toLowerCase(e.mime_type), "video/") THEN "video" ELSE UNDEF,
      IF startsWith(toLowerCase(e.mime_type), "audio/") THEN "audio" ELSE UNDEF,
      IF toLowerCase(e.mime_type) = "application/pdf"
         \/ endsWith(toLowerCase(e.file_name), ".pdf") THEN "pdf" ELSE UNDEF,
      IF e.type = "photo" THEN "image" ELSE UNDEF,
      IF e.type \in {"video", "video_note"} THEN "video" ELSE UNDEF,
      IF e.type \in {"audio", "voice"} THEN "audio" ELSE UNDEF,
      "file">>

\* C20: inferNotionBlockType applies, in this order: MIME type starting with
\* image/ -> image, video/ -> video, audio/ -> audio; MIME type application/pdf
\* or file name ending in .pdf -> pdf; Telegram type photo -> image, video or
\* video_note -> video, audio or voice -> audio; otherwise file.  A file of
\* type application/pdf is a pdf even when its name has no extension
C20_BlockTypeOrder ==
    \A e \in UploadedEntries :
        e.status = "uploaded" =>
            /\ e.notion_block_type = FirstAvailable(BlockTypeRules(e))
            /\ (e.mime_type = "application/pdf" /\ e.file_name = "report")
                  => e.notion_block_type = "pdf"
            /\ e.mime_type = "Image/PNG" => e.notion_block_type = "image"
            /\ (e.mime_type = "text/plain" /\ e.file_name = "Scan.PDF")
                  => e.notion_block_type = "pdf"
            /\ (e.mime_type = "text/plain" /\ e.file_name # "Scan.PDF")
                  => e.notion_block_type =
                        (CASE e.type = "photo" -> "image"
                           [] e.type \in {"video", "video_note"} -> "video"
                           [] e.type \in {"audio", "voice"} -> "audio"
                           [] OTHER -> "file")

\* a voice note declared application/pdf was uploaded under the name taken from
\* its file_path, which has no extension: its block is a pdf block
C20_Witness ==
    \E e \in UploadedEntries :
        /\ e.status = "uploaded"
        /\ e.type = "voice"
        /\ e.mime_type = "application/pdf"
        /\ e.file_name = "file_1"
        /\ e.notion_block_type = "pdf"

\* the sends k = 1..Len(sent) a session has taken are the first parts of a buffer
\* of that size, in order
PartsInOrder(session, size) ==
    \A k \in 1..Len(session.sent) :
        LET part == session.sent[k]
        IN  /\ part.start = (k - 1) * NOTION_SINGLE_PART_UPLOAD_BYTES
            /\ part.end = Min2(k * NOTION_SINGLE_PART_UPLOAD_BYTES, size)
            /\ part.start <= part.end
            /\ k > 1 => part.start = session.sent[k - 1].end
            /\ k < ExpectedParts(size) =>
                  part.end - part.start = NOTION_SINGLE_PART_UPLOAD_BYTES
            /\ part.end - part.start <= NOTION_SINGLE_PART_UPLOAD_BYTES
            /\ part.part_number = (IF session.mode = "multi_part" THEN k ELSE NoNumber)

\* the session was created for a buffer of that size
DeclaredFor(session, size) ==
    /\ session.mode = (IF ExpectedParts(size) > 1 THEN "multi_part" ELSE "single_part")
    /\ session.number_of_parts =
          (IF ExpectedParts(size) > 1 THEN ExpectedParts(size) ELSE NoNumber)
    /\ Len(session.sent) <= ExpectedParts(size)

\* C21: an upload in N parts sends as part k the bytes
\* [(k-1) * 20 MiB, min(k * 20 MiB, size)): the parts follow each other without
\* gap or overlap, cover the buffer, and only the last may be shorter than
\* 20 MiB; a multi-part session gets the part numbers 1, 2, ..., N in this
\* order, once each, N being the number_of_parts declared at its creation; a
\* single-part session gets no part number
C21_PartRanges ==
    \A p \in DOMAIN req :
        LET r == req[p]
        IN  /\ (r.pc \in {"send", "complete"} /\ r.cur.uploadId # NoNumber) =>
                  /\ DeclaredFor(sessions[r.cur.uploadId], r.cur.actualSize)
                  /\ PartsInOrder(sessions[r.cur.uploadId], r.cur.actualSize)
                  /\ Len(sessions[r.cur.uploadId].sent) = r.cur.part
            /\ \A k \in 1..Len(r.uploadStates) :
                  LET st == r.uploadStates[k]
                  IN  st.status = "uploaded" =>
                         LET session == sessions[st.notion_file_upload_id]
                             N == ExpectedParts(st.size_bytes)
                         IN  /\ DeclaredFor(session, st.size_bytes)
                             /\ PartsInOrder(session, st.size_bytes)
                             /\ Len(session.sent) = N
                             /\ session.sent[1].start = 0
                             /\ session.sent[N].end = st.size_bytes
                             /\ LET sends == CallsFor(r, k, {"send"})
                                IN  \A m, n \in sends :
                                       m < n => r.calls[m].part < r.calls[n].part
                                                \/ session.mode = "single_part"

\* a buffer of 40 MiB + 1 bytes was uploaded in three parts, the last of one byte
C21_Witness ==
    \E p \in DOMAIN req : \E k \in 1..Len(req[p].uploadStates) :
        LET st == req[p].uploadStates[k]
        IN  /\ st.status = "uploaded"
            /\ st.size_bytes = 2 * NOTION_SINGLE_PART_UPLOAD_BYTES + 1
            /\ Len(sessions[st.notion_file_upload_id].sent) = 3
            /\ sessions[st.notion_file_upload_id].sent[3].end
                 - sessions[st.notion_file_upload_id].sent[3].start = 1

\* the call at position n of r.calls did not succeed; a session without id is a
\* failure where the id is asserted
FailedCall(r, n) ==
    \/ r.calls[n].res \notin {"ok", "no_id"}
    \/ r.calls[n].res = "no_id" /\ r.kind = "webhook"

\* C22: complete is called only after each of the N sends has succeeded; a failed
\* create, send or complete ends the upload there: no later send or complete
\* for the session, no second session for the attachment in the same ingestion,
\* and the attachment is failed and has no attachment block
C22_StopAtFirstFailure ==
    \A p \in DOMAIN req :
        LET r == req[p]
        IN  \A k \in 1..Len(r.files) :
              LET calls == CallsFor(r, k, NotionUploadOps)
                  sends == CallsFor(r, k, {"send"})
                  okSends == {n \in sends : r.calls[n].res = "ok"}
                  creates == CallsFor(r, k, {"create"})
                  failed == {n \in calls : FailedCall(r, n)}
                  own == {s \in 1..Len(sessions) : sessions[s].by = p /\ sessions[s].file = k}
              IN  /\ \A c \in CallsFor(r, k, {"complete"}) :
                        /\ \A n \in sends : n < c /\ r.calls[n].res = "ok"
                        /\ \E n \in DOMAIN r.calls :
                              /\ n \in CallsFor(r, k, {"download"}) /\ r.calls[n].res = "ok"
                              /\ Cardinality(okSends) = ExpectedParts(r.calls[n].part)
                  /\ Cardinality(creates) <= 1
                  /\ \A n \in failed :
                        /\ \A m \in CallsFor(r, k, FileOps) : m <= n
                        /\ (r.i # k \/ r.pc \notin UploadPcs)
                        /\ r.bi = r.calls[n].upd =>
                              /\ Len(r.uploadStates) >= k
                              /\ r.uploadStates[k].status = "failed"
                              /\ r.uploadStates[k].notion_file_upload_id = NoNumber
                              /\ Len(r.uploadedBlocks) =
                                    Cardinality({j \in 1..Len(r.uploadStates) :
                                                    r.uploadStates[j].status = "uploaded"})
                              /\ \A b \in 1..Len(r.uploadedBlocks) :
                                    /\ r.uploadedBlocks[b].file_upload_id # NoNumber
                                    /\ r.uploadedBlocks[b].file_upload_id \notin own

\* the second part of a three-part upload was refused: the session is left with
\* one part, the file is failed and the next step is the ledger
C22_Witness ==
    \E p \in DOMAIN req :
        LET r == req[p]
        IN  /\ r.pc = "ledger"
            /\ Len(r.uploadStates) = 1
            /\ r.uploadStates[1].status = "failed"
            /\ \E n \in CallsFor(r, 1, {"send"}) : r.calls[n].part = 2 /\ r.calls[n].res = "error"
            /\ \E s \in 1..Len(sessions) :
                  /\ sessions[s].by = p
                  /\ sessions[s].number_of_parts = 3
                  /\ Len(sessions[s].sent) = 1
                  /\ ~sessions[s].completed

AttachmentTypes == {"image", "video", "audio", "pdf", "file"}

\* the session with that id took all its parts, and the complete call when it
\* is a multi-part session
SessionFinished(id) ==
    /\ id \in 1..Len(sessions)
    /\ IF sessions[id].mode = "single_part"
       THEN Len(sessions[id].sent) = 1 /\ ~sessions[id].completed
       ELSE /\ Len(sessions[id].sent) = sessions[id].number_of_parts
            /\ {sessions[id].sent[k].part_number : k \in 1..Len(sessions[id].sent)}
                 = 1..sessions[id].number_of_parts
            /\ sessions[id].completed

\* the upload ids of the entries with status uploaded, in the order of the list
RECURSIVE UploadedIds(_)
UploadedIds(states) ==
    IF states = <<>> THEN <<>>
    ELSE (IF Head(states).status = "uploaded"
          THEN <<Head(states).notion_file_upload_id>> ELSE <<>>)
         \o UploadedIds(Tail(states))

\* C23: every attachment block appended to a page references a file upload
\* whose session is finished: its one send succeeded (single-part) or all its
\* sends and its complete call succeeded (multi-part); no block references an
\* abandoned or unfinished session; and a file has a block if and only if its
\* status is uploaded
C23_BlocksReferenceFinishedUploads ==
    /\ \A k \in 1..Len(pages) : \A b \in 1..Len(pages[k].children) :
          pages[k].children[b].type \in AttachmentTypes =>
              SessionFinished(pages[k].children[b].file_upload_id)
    /\ \A p \in DOMAIN req :
          LET r == req[p]
          IN  /\ \A b \in 1..Len(r.uploadedBlocks) :
                    /\ r.uploadedBlocks[b].type \in AttachmentTypes
                    /\ SessionFinished(r.uploadedBlocks[b].file_upload_id)
              /\ [b \in 1..Len(r.uploadedBlocks) |-> r.uploadedBlocks[b].file_upload_id]
                   = UploadedIds(r.uploadStates)
              /\ \A j \in 1..Len(r.uploadStates) :
                    r.uploadStates[j].status # "uploaded" =>
                        r.uploadStates[j].notion_file_upload_id = NoNumber

\* a page carries the block of a three-part upload next to its ledger, in which
\* another file of the message is failed
C23_Witness ==
    \E k \in 1..Len(pages) : \E b \in 1..Len(pages[k].children) :
        /\ pages[k].children[b].type \in AttachmentTypes
        /\ sessions[pages[k].children[b].file_upload_id].number_of_parts = 3
        /\ \E l \in BlocksOf(k, "ledger") :
              \E j \in 1..Len(pages[k].children[l].uploads) :
                  pages[k].children[l].uploads[j].status = "failed"
        /\ \E s \in 1..Len(sessions) : ~SessionFinished(s)

\* C24: when getFile answers without file_path the attachment is failed and no
\* download is tried; when the download is answered with a status that is not
\* 2xx the attachment is failed with a reason that carries the status; in both
\* cases no Notion file-upload call is made for the file
C24_NoPathOrRefusedDownload ==
    \A p \in DOMAIN req :
        LET r == req[p]
        IN  \A k \in 1..Len(r.files) :
              /\ \A n \in CallsFor(r, k, {"getFile"}) :
                    r.calls[n].res = "no_file_path" =>
                        /\ CallsFor(r, k, {"download"} \cup NotionUploadOps) = {}
                        /\ Len(r.uploadStates) >= k
                        /\ r.uploadStates[k].status = "failed"
                        /\ r.uploadStates[k].reason =
                              Reason("Telegram getFile did not return file_path", 0)
                        /\ r.uploadStates[k].file_id = r.files[k].file_id
              /\ \A n \in CallsFor(r, k, {"download"}) :
                    r.calls[n].res = "not_ok" =>
                        /\ CallsFor(r, k, NotionUploadOps) = {}
                        /\ Cardinality(CallsFor(r, k, {"download"})) = 1
                        /\ Len(r.uploadStates) >= k
                        /\ r.uploadStates[k].status = "failed"
                        /\ r.uploadStates[k].reason =
                              Reason("Telegram file download failed", r.calls[n].part)
                        /\ r.calls[n].part \in {404, 500}
                        /\ r.uploadStates[k].file_id = r.files[k].file_id

\* the voice note of a message got no file_path and its photo a 404 on download:
\* both are failed and the run reached the ledger without a Notion upload call
C24_Witness ==
    \E p \in DOMAIN req :
        LET r == req[p]
        IN  /\ r.pc = "ledger"
            /\ Len(r.uploadStates) = 2
            /\ r.uploadStates[1].reason = Reason("Telegram file download failed", 404)
            /\ r.uploadStates[2].reason =
                  Reason("Telegram getFile did not return file_path", 0)
            /\ \A n \in 1..Len(r.calls) : r.calls[n].op \notin NotionUploadOps

\* C25: the byte buffer held in memory for an attachment never exceeds the
\* configured maximum upload size: in every state the payload a request holds
\* has at most getMaxUploadBytes bytes
C25_BufferWithinMax ==
    \A p \in DOMAIN req :
        req[p].cur.payload # NoNumber => req[p].cur.payload <= getMaxUploadBytes

\* the entry carries the name and the type inferred after a download of the file
HasResolvedValues(st, file) ==
    \E contentType \in ContentTypesOf(file), filePath \in FilePaths(file) :
        /\ st.mime_type = inferMimeType(file, contentType, filePath)
        /\ st.file_name = inferFilename(file, filePath, st.mime_type)

\* the entry carries the name, the type and the size Telegram declared
HasDeclaredValues(st, file) ==
    /\ st.file_name = BaseState(file).file_name
    /\ st.mime_type = BaseState(file).mime_type
    /\ st.size_bytes = BaseState(file).size_bytes

\* the statement of C26 as written: every entry of a file whose download
\* succeeded carries the resolved name and type and the downloaded byte length,
\* whatever its status; the declared values stand only in the entries of files
\* whose download did not succeed
C26_ResolvedAfterDownload ==
    \A p \in DOMAIN req : \A k \in 1..Len(req[p].uploadStates) :
        LET r == req[p]
            st == r.uploadStates[k]
            size == DownloadedSize(r, k)
        IN  k <= Len(r.files) =>
              IF size # NoNumber
              THEN HasResolvedValues(st, r.files[k]) /\ st.size_bytes = size
              ELSE HasDeclaredValues(st, r.files[k])

\* C26: an entry with status uploaded or skipped for its size carries the name
\* and type resolved after the download and the downloaded byte length; an
\* entry with status failed carries the values Telegram declared, also when the
\* download had succeeded and a later step failed
C26_ResolvedUnlessFailed ==
    \A p \in DOMAIN req : \A k \in 1..Len(req[p].uploadStates) :
        LET r == req[p]
            st == r.uploadStates[k]
            size == DownloadedSize(r, k)
        IN  k <= Len(r.files) =>
              /\ st.status = "uploaded" => size # NoNumber
              /\ (st.status \in {"uploaded", "skipped"} /\ size # NoNumber) =>
                    /\ st.size_bytes = size
                    /\ HasResolvedValues(st, r.files[k])
              /\ st.status = "failed" => HasDeclaredValues(st, r.files[k])
              /\ size = NoNumber => HasDeclaredValues(st, r.files[k])

\* a voice note declared with 1 byte was downloaded with 20 MiB and its upload
\* failed afterwards: its entry says 1 byte and application/octet-stream
C26_Witness ==
    \E p \in DOMAIN req : \E k \in 1..Len(req[p].uploadStates) :
        LET r == req[p]
            st == r.uploadStates[k]
        IN  /\ st.status = "failed"
            /\ st.type = "voice"
            /\ DownloadedSize(r, k) = NOTION_SINGLE_PART_UPLOAD_BYTES
            /\ st.size_bytes = 1
            /\ st.mime_type = "application/octet-stream"
            /\ \E j \in 1..Len(r.uploadStates) :
                  /\ r.uploadStates[j].status = "skipped"
                  /\ r.uploadStates[j].size_bytes = DownloadedSize(r, j)

\* the place of an outbound call in the order of an ingestion: the step, then
\* for the calls of a file the file, the call and the part
StepOrder ==
    [schema |-> 1, query |-> 2, createPage |-> 3, getFile |-> 4, download |-> 4,
     create |-> 4, send |-> 4, complete |-> 4, appendLedger |-> 5, appendBlocks |-> 6,
     appendFallback |-> 7, reaction |-> 8]

FileStepOrder == [getFile |-> 1, download |-> 2, create |-> 3, send |-> 4, complete |-> 5]

\* call a comes before call b in the order of an ingestion
Precedes(a, b) ==
    \/ StepOrder[a.op] < StepOrder[b.op]
    \/ /\ a.op \in FileOps /\ b.op \in FileOps
       /\ \/ a.file < b.file
          \/ a.file = b.file /\ FileStepOrder[a.op] < FileStepOrder[b.op]
          \/ a.file = b.file /\ a.op = "send" /\ b.op = "send"
             /\ a.part # NoNumber /\ a.part + 1 = b.part

\* C27: within one webhook ingestion the outbound calls are made one after the
\* other in this order: schema fetch, dedupe query, page create, then for each
\* attachment in the order of the message getFile, download, session create,
\* the sends 1..N, complete, then the append of the ledger, the append of the
\* attachment blocks, the reaction; no call is made twice and none of an earlier
\* step follows one of a later step
C27_StepOrder ==
    \A p \in DOMAIN req :
        LET r == req[p]
        IN  r.kind = "webhook" =>
              /\ \A n \in 1..Len(r.calls) :
                    /\ r.calls[n].op \in DOMAIN StepOrder
                    /\ r.calls[n].op \in FileOps =>
                          /\ r.calls[n].file \in 1..Len(r.files)
                          /\ r.files = extractFiles(MessageOf(r.upd), 1)
                    /\ n > 1 => Precedes(r.calls[n - 1], r.calls[n])
              /\ \A m, n \in 1..Len(r.calls) : m < n => r.calls[m] # r.calls[n]
              /\ Len(r.calls) > 0 => r.calls[1].op = "schema"
              /\ \A n \in 1..Len(r.calls) :
                    /\ r.calls[n].op = "createPage" => n > 1 /\ r.calls[n - 1].op \in {"schema", "query"}
                    /\ r.calls[n].op = "appendLedger" =>
                          r.calls[n - 1].op \in FileOps /\ r.calls[n - 1].file = Len(r.files)
                    /\ r.calls[n].op = "appendBlocks" => r.calls[n - 1].op = "appendLedger"
                    /\ r.calls[n].op = "complete" =>
                          r.calls[n - 1].op = "send" /\ r.calls[n - 1].file = r.calls[n].file
                    /\ (r.calls[n].op = "send" /\ r.calls[n].part \in {NoNumber, 1}) =>
                          r.calls[n - 1].op = "create" /\ r.calls[n - 1].file = r.calls[n].file
                    /\ r.calls[n].op = "create" =>
                          r.calls[n - 1].op = "download" /\ r.calls[n - 1].file = r.calls[n].file
                    /\ r.calls[n].op = "download" =>
                          r.calls[n - 1].op = "getFile" /\ r.calls[n - 1].file = r.calls[n].file
                    /\ (r.calls[n].op = "getFile" /\ r.calls[n].file = 1) =>
                          r.calls[n - 1].op = "createPage"

\* a delivery of the message with a photo and a voice note went through all the
\* steps: both files in three parts, the ledger, the blocks and the reaction
C27_Witness ==
    \E p \in DOMAIN req :
        LET r == req[p]
        IN  /\ r.kind = "webhook" /\ r.pc = "done" /\ r.resp = Json(200, TRUE)
            /\ [n \in 1..Len(r.calls) |-> r.calls[n].op] =
                  <<"schema", "query", "createPage",
                    "getFile", "download", "create", "send", "send", "send", "complete",
                    "getFile", "download", "create", "send", "send", "send", "complete",
                    "appendLedger", "appendBlocks", "reaction">>

\* delivery p of an update started after delivery q of the same update had
\* ended with its page created and an attachment failed
RetryOf(p, q) ==
    /\ req[p].kind = "webhook" /\ req[q].kind = "webhook"
    /\ q \in req[p].after
    /\ req[p].upd = req[q].upd
    /\ PageCreatedBy(q)
    /\ \E j \in 1..Len(req[q].uploadStates) : req[q].uploadStates[j].status = "failed"

C29_ReactionBestEffort ==
    \A p \in DOMAIN req :
        (req[p].kind = "webhook" /\ Len(req[p].calls) > 0
         /\ LastCall(req[p]).op = "reaction") =>
            /\ req[p].pc = "done"
            /\ req[p].resp = Json(200, TRUE)
            /\ Cardinality(PagesBy(p)) = 1

\* a request that the handler turns away: 404 for a method other than POST,
\* 500 for enforcement without a configured secret or for a missing token,
\* 401 for a secret mismatch, 400 for a bad body or a non-numeric update_id
Rejected(r) ==
    /\ r.kind = "webhook"
    /\ r.pc = "done"
    /\ \/ r.resp = NotFound
       \/ r.resp = Json(401, FALSE)
       \/ r.resp = Json(400, FALSE)
       \/ /\ r.resp = Json(500, FALSE)
          /\ \/ isTrueEnvFlag(env.requireSecret) /\ ~SecretConfigured
             \/ ~env.notionToken
             \/ ~env.telegramToken

\* C30: a webhook request that is rejected (404, 500 of the configuration
\* checks, 401, 400) has made no outbound call: its call log is empty, and no
\* page and no upload session is its work
C30_RejectedMakesNoCall ==
    \A p \in DOMAIN req :
        Rejected(req[p]) =>
            /\ req[p].calls = <<>>
            /\ PagesBy(p) = {}
            /\ \A k \in 1..Len(sessions) : sessions[k].by # p

\* every kind of rejection is seen in some configuration; this one is the 401
\* of a POST with a wrong secret, tokens set, that an accepted request would
\* have followed with the schema fetch
C30_Witness ==
    \E p \in DOMAIN req :
        /\ Rejected(req[p])
        /\ req[p].resp = Json(401, FALSE)
        /\ req[p].in.method = "POST"
        /\ req[p].in.body.form = "object"
        /\ req[p].in.header = [kind |-> "string", val |-> <<1, 3>>]
        /\ Gate([req[p].in EXCEPT !.header = [kind |-> "string", val |-> Secret]]) = Pending
        /\ req[p].calls = <<>>
        /\ pages = <<>>

=============================================================================
